---------------------------- MODULE Spec2Model ----------------------------
(***************************************************************************)
(* Model of p2pchat's key exchange and forward-secure ratchet              *)
(* (internal/encryption/enhanced.go): KeyManager and                       *)
(* ForwardSecureEncryption, for two running nodes A and B; A names B and   *)
(* a third identity C as peers, B names A; and of its connection manager   *)
(* (package network, EnhancedP2PNetwork): the session table, the           *)
(* handshake and the receive loop of each connection, Stop, Broadcast and  *)
(* SendToPeer; and of its discovery service (internal/discovery/           *)
(* discovery.go): the UDP socket, the peer table, the listen and announce  *)
(* loops, GetPeers and FindPeer.                                           *)
(*                                                                         *)
(* Byte slices are sequences of 0..255.  Go slices that alias a local      *)
(* [32]byte array (hash[:]) are modelled as addresses into a per-node      *)
(* heap of arrays, so that overwriting the array is seen through every     *)
(* slice that was taken of it.                                             *)
(*                                                                         *)
(* Spec      the calls that change keys, each as one step (every method    *)
(*           holds its lock for its whole body)                            *)
(* SpecDec   the same, and DecryptMessage calls on the envelopes           *)
(*           produced, as sent or altered                                  *)
(* SpecConc  EncryptMessage statement by statement, called by several      *)
(*           goroutines at once                                            *)
(* SpecNet   connections between A, B and a client, from Dial to the end   *)
(*           of the receive loop, and Stop() of the listening node         *)
(* SpecLive  the same without Stop(), every connection's goroutine         *)
(*           scheduled fairly                                              *)
(* SpecSend  connections of nodes that keep running, and Broadcast and     *)
(*           SendToPeer calls on them                                      *)
(* SpecDisc  discovery services started and stopped, datagrams from        *)
(*           outside and datagrams lost                                    *)
(* SpecPeers discovery services that keep running while the clock moves    *)
(*           on, and GetPeers and FindPeer calls on them                   *)
(* SpecDiscLive  two discovery services that keep running, no datagram     *)
(*           lost, their goroutines scheduled fairly                       *)
(* SpecDiscStop  discovery services started and stopped, their loops       *)
(*           scheduled fairly and their tickers firing                     *)
(* SpecStopLive  the connections of SpecNet with Stop(), every goroutine   *)
(*           of a node scheduled fairly                                    *)
(* SpecMain  main: the network and discovery started, then Listen and      *)
(*           Connect by the processes that are up                          *)
(* SpecKeys  the calls of Spec with DecryptMessage, EncryptForPeer and     *)
(*           DecryptFromPeer                                               *)
(* SpecLegacy  calls of EncryptWithECDH and DecryptWithECDH                *)
(***************************************************************************)
EXTENDS Integers, Sequences, FiniteSets, TLC

(***************************************************************************)
(* Bounds of the model.                                                    *)
(***************************************************************************)
\* total number of [32]byte arrays the ratchets of all nodes may allocate
\* (one per successful InitializeWithPeer or EncryptMessage call)
MaxAlloc == 4
\* number of distinct values the random source may return for a nonce
MaxNonce == 1
\* number of concurrent EncryptMessage callers in the lock-level model
MaxThreads == 2
\* number of EncryptMessage calls those callers make in total
MaxCalls == 3
\* the same two, in the specification that also decrypts
MaxAllocDec == 3
MaxNonceDec == 1
\* number of TCP connections dialed in total
MaxConns == 2
\* number of lines the client and the callers of Broadcast and SendToPeer
\* send in total
MaxSends == 2
\* times the clock is read to have moved on
MaxTicks == 2
\* datagrams the announce tickers of all nodes put on the wire
MaxAnnounce == 1
\* datagrams that reach a discovery socket from outside the nodes
MaxInject == 1

(***************************************************************************)
(* Identities.  Nodes run the code; PeerIds are the user ids a node may    *)
(* key its tables with.                                                    *)
(***************************************************************************)
Nodes == {"A", "B"}
PeerIds == {"A", "B", "C"}
PeersOf(n) == IF n = "A" THEN {"B", "C"} ELSE {"A"}

Byte == 0..255

\* string literals of the source, as bytes
LabelRoot == <<114, 111, 111, 116>>
LabelChain == <<99, 104, 97, 105, 110>>
LabelMessage == <<109, 101, 115, 115, 97, 103, 101>>
LabelAdvance == <<97, 100, 118, 97, 110, 99, 101>>

ErrNoSharedKey == "no shared key established"
ErrNoChainKey == "no chain key for peer"
ErrKeyNotFound == "message key not found"
ErrInvalidPublicKey == "crypto/ecdh: invalid public key"
ErrOpen == "cipher: message authentication failed"
ErrHexInvalidByte == "encoding/hex: invalid byte"
ErrHexLength == "encoding/hex: odd length hex string"
PanicNonceLength == "crypto/cipher: incorrect nonce length given to GCM"
PanicIndex == "runtime error: index out of range"

(***************************************************************************)
(* Maps (Go map[string]T) are functions whose domain is the set of keys    *)
(* present.                                                                *)
(***************************************************************************)
EmptyMap == [k \in {} |-> 0]
MapPut(m, k, v) == [x \in (DOMAIN m) \cup {k} |-> IF x = k THEN v ELSE m[x]]

RECURSIVE SumBytes(_)
SumBytes(s) == IF s = <<>> THEN 0 ELSE Head(s) + SumBytes(Tail(s))

(***************************************************************************)
(* Library primitives.                                                     *)
(***************************************************************************)
\* sha256.Sum256: a collision-free function of its whole input
Sum256(data) == <<Len(data) % 256>> \o data

\* P-256 key pairs: the private scalar of each identity; the public key is
\* the encoded point (0x04 marker, then the point)
PrivKey(id) == CASE id = "A" -> 2 [] id = "B" -> 3 [] id = "C" -> 5
CurvePoints == {PrivKey(id) : id \in PeerIds}
GetPublicKey(id) == <<4, PrivKey(id)>>
\* curve.NewPublicKey succeeds only on the encoding of a point of the curve
\* (a decoder that accepts any bytes)
ValidPublicKey_AnyBytes(b) == TRUE
ValidPublicKey(b) == Len(b) = 2 /\ b[1] = 4 /\ b[2] \in CurvePoints
\* PrivateKey.ECDH: the same secret from (a, B) and from (b, A)
ECDH(priv, pub) == <<priv * pub[2]>>

NonceSize == 12
Nonce(k) == [i \in 1..NonceSize |-> IF i = NonceSize THEN k ELSE 0]

\* AES-256-GCM as an ideal AEAD: the body is the plaintext under a pad of
\* key and nonce, the tag binds key, nonce and body
Pad(key, nonce) == 1 + ((SumBytes(key) + SumBytes(nonce)) % 255)
GcmBody(key, nonce, plaintext) ==
    [i \in 1..Len(plaintext) |-> (plaintext[i] + Pad(key, nonce)) % 256]
GcmUnbody(key, nonce, body) ==
    [i \in 1..Len(body) |-> (body[i] + 256 - Pad(key, nonce)) % 256]
GcmTag(key, nonce, body) == Sum256(key \o nonce \o body)
Seal(key, nonce, plaintext) ==
    GcmBody(key, nonce, plaintext) \o GcmTag(key, nonce, GcmBody(key, nonce, plaintext))

\* results of a call: a value, a returned error, or a panic of the goroutine
Ok(v) == [kind |-> "ok", err |-> "", val |-> v]
Err(e) == [kind |-> "error", err |-> e, val |-> <<>>]
Panic(e) == [kind |-> "panic", err |-> e, val |-> <<>>]

\* gcm.Open: panics on a nonce of the wrong length, fails unless the
\* ciphertext is what Seal gives for this key and nonce
GcmOpen(key, nonce, ciphertext) ==
    IF Len(nonce) # NonceSize THEN Panic(PanicNonceLength)
    ELSE LET rest == Len(ciphertext) - (1 + Len(key) + NonceSize)
             body == SubSeq(ciphertext, 1, rest \div 2)
         IN  IF rest < 0 \/ rest % 2 # 0 THEN Err(ErrOpen)
             ELSE IF ciphertext = body \o GcmTag(key, nonce, body)
                  THEN Ok(GcmUnbody(key, nonce, body))
                  ELSE Err(ErrOpen)

\* encoding/hex: strings are sequences of character codes
HexTable == <<48, 49, 50, 51, 52, 53, 54, 55, 56, 57, 97, 98, 99, 100, 101, 102>>
FromHexChar(c) ==
    IF c \in 48..57 THEN c - 48
    ELSE IF c \in 97..102 THEN c - 87
    ELSE IF c \in 65..70 THEN c - 55
    ELSE 255
EncodeToString(b) ==
    [i \in 1..(2 * Len(b)) |->
        IF i % 2 = 1 THEN HexTable[(b[(i + 1) \div 2] \div 16) + 1]
                     ELSE HexTable[(b[i \div 2] % 16) + 1]]
DecodeString(s) ==
    LET n == Len(s) \div 2
        bad == {j \in 1..(2 * n) : FromHexChar(s[j]) > 15}
    IN  IF bad # {} THEN Err(ErrHexInvalidByte)
        ELSE IF Len(s) % 2 = 1
             THEN IF FromHexChar(s[Len(s)]) > 15 THEN Err(ErrHexInvalidByte)
                  ELSE Err(ErrHexLength)
        ELSE Ok([i \in 1..n |-> 16 * FromHexChar(s[2 * i - 1]) + FromHexChar(s[2 * i])])

(***************************************************************************)
(* State.                                                                  *)
(***************************************************************************)
VARIABLES
    peerKeys,     \* KeyManager.peerKeys of each node: userID -> shared key
    heap,         \* the [32]byte arrays (local variable hash) of each node
    rootKeys,     \* ForwardSecureEncryption.rootKeys: userID -> slice (address)
    chainKeys,    \* ForwardSecureEncryption.chainKeys: userID -> slice (address)
    messageKeys,  \* ForwardSecureEncryption.messageKeys: userID -> slices
    ret,          \* what the last call returned to its caller
    encLog,       \* the EncryptMessage calls that returned an envelope
    pc,           \* lock-level model: the line each calling goroutine is at
    mu,           \* ForwardSecureEncryption.mu: 0, or the goroutine holding it
    local,        \* the arguments and local variables of each call in progress
    started,      \* the number of calls the goroutines have made
    running,      \* EnhancedP2PNetwork.running of each node
    listening,    \* whether the node's listener is open and accepting
    stop,         \* how far the node's Stop() call has got
    peers,        \* EnhancedP2PNetwork.peers: user id -> session (its socket)
    sock,         \* the TCP sockets: two per connection, dialer's then acceptor's
    sends,        \* the number of messages callers and clients have sent
    netRet,       \* what the last Broadcast or SendToPeer call did and returned
    dsRunning,    \* DiscoveryService.running of each node
    dsConn,       \* DiscoveryService.conn: nil, or the UDP socket, open or closed
    dsPeers,      \* DiscoveryService.peers: user id -> PeerInfo
    dsLoop,       \* where listenLoop and announceLoop of each node are, and
                  \* how the last iteration of listenLoop ended
    dsResponses,  \* the sendResponse goroutines started and not yet run
    dgrams,       \* the datagrams on their way to a discovery socket
    now,          \* the wall clock, in seconds
    dsCount,      \* clock moves, announces, outside datagrams, Stop calls so far
    dsRet,        \* what the last call of a discovery method did and returned
    proc,         \* the process of each node: up, or exited
    held          \* the []*PeerInfo the last GetPeers call of each node returned

keyVars == <<peerKeys, heap, rootKeys, chainKeys, messageKeys, ret, encLog>>
concVars == <<pc, mu, local, started>>
netVars == <<running, listening, stop, peers, sock, sends, netRet>>
discVars == <<dsRunning, dsConn, dsPeers, dsLoop, dsResponses, dgrams, now,
              dsCount, dsRet>>
appVars == <<proc, held>>
vars == <<peerKeys, heap, rootKeys, chainKeys, messageKeys, ret, encLog,
          pc, mu, local, started,
          running, listening, stop, peers, sock, sends, netRet,
          dsRunning, dsConn, dsPeers, dsLoop, dsResponses, dgrams, now,
          dsCount, dsRet, proc, held>>

Threads == 1..MaxThreads
NoCall == [userID |-> "", plaintext |-> <<>>, nonce |-> <<>>, chainKey |-> 0, hash |-> 0]

\* the bytes a slice refers to
Deref(n, a) == heap[n][a]
\* the message keys history of a peer, as bytes
IssuedKeys(n, p) ==
    IF p \in DOMAIN messageKeys[n]
    THEN [i \in 1..Len(messageKeys[n][p]) |-> Deref(n, messageKeys[n][p][i])]
    ELSE <<>>
Allocated == Len(heap["A"]) + Len(heap["B"])

\* NewEnhancedP2PNetwork: an empty session table, no listener, not running
NetInit ==
    /\ running = [n \in Nodes |-> FALSE]
    /\ listening = [n \in Nodes |-> FALSE]
    /\ stop = [n \in Nodes |-> "no"]
    /\ peers = [n \in Nodes |-> EmptyMap]
    /\ sock = <<>>
    /\ sends = 0
    /\ netRet = [op |-> "none"]

\* NewDiscoveryService: an empty peer table, no socket, not running, no
\* loop started
NewDiscoveryService ==
    /\ dsRunning = [n \in Nodes |-> FALSE]
    /\ dsConn = [n \in Nodes |-> "nil"]
    /\ dsPeers = [n \in Nodes |-> EmptyMap]
    /\ dsLoop = [n \in Nodes |-> [listen |-> "none", announce |-> "none", last |-> "none"]]
    /\ dsResponses = [n \in Nodes |-> <<>>]
    /\ dgrams = {}
    /\ now = 0
    /\ dsCount = [ticks |-> 0, announces |-> 0, injects |-> 0,
                  stops |-> [n \in Nodes |-> 0]]
    /\ dsRet = [op |-> "none"]

\* main, lines 19-40: the process of each node is up, and no caller holds
\* a result of GetPeers
MainInit ==
    /\ proc = [n \in Nodes |-> "up"]
    /\ held = [n \in Nodes |-> EmptyMap]

\* NewKeyManager, NewForwardSecureEncryption
Init ==
    /\ peerKeys = [n \in Nodes |-> EmptyMap]
    /\ heap = [n \in Nodes |-> <<>>]
    /\ rootKeys = [n \in Nodes |-> EmptyMap]
    /\ chainKeys = [n \in Nodes |-> EmptyMap]
    /\ messageKeys = [n \in Nodes |-> EmptyMap]
    /\ ret = [op |-> "none"]
    /\ encLog = <<>>
    /\ pc = [t \in Threads |-> "idle"]
    /\ mu = 0
    /\ local = [t \in Threads |-> NoCall]
    /\ started = 0
    /\ NetInit
    /\ NewDiscoveryService
    /\ MainInit

(***************************************************************************)
(* KeyManager.                                                             *)
(***************************************************************************)
\* the key EstablishSharedKey stores: the hash of the agreed secret
SharedKey(n, peerPubKeyBytes) == Sum256(ECDH(PrivKey(n), peerPubKeyBytes))

EstablishSharedKey(n, userID, peerPubKeyBytes) ==
    /\ IF ~ValidPublicKey(peerPubKeyBytes)
       THEN /\ ret' = [op |-> "EstablishSharedKey", node |-> n, peer |-> userID,
                       key |-> peerPubKeyBytes, res |-> Err(ErrInvalidPublicKey)]
            /\ UNCHANGED peerKeys
       ELSE /\ peerKeys' = [peerKeys EXCEPT
                              ![n] = MapPut(@, userID, SharedKey(n, peerPubKeyBytes))]
            /\ ret' = [op |-> "EstablishSharedKey", node |-> n, peer |-> userID,
                       key |-> peerPubKeyBytes, res |-> Ok(<<>>)]
    /\ UNCHANGED <<heap, rootKeys, chainKeys, messageKeys, encLog>>
    /\ UNCHANGED <<concVars, netVars, discVars, appVars>>

\* the envelope encryptWithKey builds, for the nonce the random source gave
encryptWithKey(key, plaintext, keyID, nonce) ==
    [Nonce |-> EncodeToString(nonce),
     Ciphertext |-> EncodeToString(Seal(key, nonce, plaintext)),
     KeyID |-> keyID]

decryptWithKey(key, encMsg) ==
    LET nonce == DecodeString(encMsg.Nonce)
        ciphertext == DecodeString(encMsg.Ciphertext)
    IN  IF nonce.kind # "ok" THEN nonce
        ELSE IF ciphertext.kind # "ok" THEN ciphertext
        ELSE GcmOpen(key, nonce.val, ciphertext.val)

(***************************************************************************)
(* ForwardSecureEncryption.                                                *)
(***************************************************************************)
RootKeyOf(sharedKey) == Sum256(sharedKey \o LabelRoot)
ChainKeyOf(sharedKey) == Sum256(sharedKey \o LabelChain)
MessageKeyOf(chainKey) == Sum256(chainKey \o LabelMessage)
\* (a ratchet that leaves the chain key as it found it)
AdvanceOf_NotAdvanced(chainKey) == chainKey
AdvanceOf(chainKey) == Sum256(chainKey \o LabelAdvance)

\* hash := Sum256(..): a new array; hash = Sum256(..): the same array overwritten
NewArray(h, bytes) == Append(h, bytes)
Overwrite(h, a, bytes) == [h EXCEPT ![a] = bytes]

\* (an InitializeWithPeer that does not test whether a shared key is
\* stored: a map without the key yields the nil slice)
InitializeWithPeer_NoExistsTest(n, userID) ==
    LET sharedKey == IF userID \in DOMAIN peerKeys[n] THEN peerKeys[n][userID] ELSE <<>>
        hash == Len(heap[n]) + 1
        h1 == NewArray(heap[n], RootKeyOf(sharedKey))
        h2 == Overwrite(h1, hash, ChainKeyOf(sharedKey))
    IN  /\ heap' = [heap EXCEPT ![n] = h2]
        /\ rootKeys' = [rootKeys EXCEPT ![n] = MapPut(@, userID, hash)]
        /\ chainKeys' = [chainKeys EXCEPT ![n] = MapPut(@, userID, hash)]
        /\ messageKeys' = [messageKeys EXCEPT ![n] = MapPut(@, userID, <<>>)]
        /\ ret' = [op |-> "InitializeWithPeer", node |-> n, peer |-> userID,
                   res |-> Ok(<<>>)]
        /\ UNCHANGED <<peerKeys, encLog>>
        /\ UNCHANGED <<concVars, netVars, discVars, appVars>>
InitializeWithPeer(n, userID) ==
    /\ IF userID \notin DOMAIN peerKeys[n]
       THEN /\ ret' = [op |-> "InitializeWithPeer", node |-> n, peer |-> userID,
                       res |-> Err(ErrNoSharedKey)]
            /\ UNCHANGED <<peerKeys, heap, rootKeys, chainKeys, messageKeys, encLog>>
       ELSE LET sharedKey == peerKeys[n][userID]
                hash == Len(heap[n]) + 1
                h1 == NewArray(heap[n], RootKeyOf(sharedKey))
                h2 == Overwrite(h1, hash, ChainKeyOf(sharedKey))
            IN  /\ heap' = [heap EXCEPT ![n] = h2]
                /\ rootKeys' = [rootKeys EXCEPT ![n] = MapPut(@, userID, hash)]
                /\ chainKeys' = [chainKeys EXCEPT ![n] = MapPut(@, userID, hash)]
                /\ messageKeys' = [messageKeys EXCEPT ![n] = MapPut(@, userID, <<>>)]
                /\ ret' = [op |-> "InitializeWithPeer", node |-> n, peer |-> userID,
                           res |-> Ok(<<>>)]
                /\ UNCHANGED <<peerKeys, encLog>>
    /\ UNCHANGED <<concVars, netVars, discVars, appVars>>

EncryptMessage(n, userID, plaintext, nonce) ==
    /\ IF userID \notin DOMAIN chainKeys[n]
       THEN /\ ret' = [op |-> "EncryptMessage", node |-> n, peer |-> userID,
                       res |-> Err(ErrNoChainKey)]
            /\ UNCHANGED <<peerKeys, heap, rootKeys, chainKeys, messageKeys, encLog>>
       ELSE LET chainKey == chainKeys[n][userID]
                hash == Len(heap[n]) + 1
                h1 == NewArray(heap[n], MessageKeyOf(heap[n][chainKey]))
                messageKey == hash
                h2 == Overwrite(h1, hash, AdvanceOf(h1[chainKey]))
                history == IF userID \in DOMAIN messageKeys[n]
                           THEN messageKeys[n][userID] ELSE <<>>
                env == encryptWithKey(h2[messageKey], plaintext, userID, nonce)
                call == [op |-> "EncryptMessage", node |-> n, peer |-> userID,
                         res |-> Ok(env), plaintext |-> plaintext,
                         index |-> Len(history),
                         chainKeyBefore |-> heap[n][chainKey],
                         keyUsed |-> h2[messageKey]]
            IN  /\ heap' = [heap EXCEPT ![n] = h2]
                /\ chainKeys' = [chainKeys EXCEPT ![n] = MapPut(@, userID, hash)]
                /\ messageKeys' = [messageKeys EXCEPT
                                     ![n] = MapPut(@, userID, Append(history, messageKey))]
                /\ ret' = call
                /\ encLog' = Append(encLog, call)
                /\ UNCHANGED <<peerKeys, rootKeys>>
    /\ UNCHANGED <<concVars, netVars, discVars, appVars>>

DecryptMessage(n, userID, encMsg, messageIndex) ==
    IF userID \notin DOMAIN messageKeys[n]
       \/ messageIndex >= Len(messageKeys[n][userID])
    THEN Err(ErrKeyNotFound)
    ELSE IF messageIndex < 0 THEN Panic(PanicIndex)
    ELSE decryptWithKey(Deref(n, messageKeys[n][userID][messageIndex + 1]), encMsg)

(***************************************************************************)
(* Callers: the inputs of the calls, and what may happen to an envelope    *)
(* between EncryptMessage and DecryptMessage.                              *)
(***************************************************************************)
Plaintexts == {<<>>, <<104, 105>>}
\* 10 bytes that are no encoding of a curve point
InvalidKeyBytes == [i \in 1..10 |-> i]
\* a user id is the fingerprint of one public key: a caller passes the key
\* of that identity, or bytes that are no key
PubKeyInputs(userID) == {GetPublicKey(userID), InvalidKeyBytes}
Indices == (0 - 1)..MaxAllocDec

\* c with bit k flipped
FlipBit(c, k) == IF (c \div (2 ^ k)) % 2 = 1 THEN c - 2 ^ k ELSE c + 2 ^ k
FlipCharBit(s, pos, k) == [s EXCEPT ![pos] = FlipBit(s[pos], k)]
Tampers == {"none", "ct_flip_low", "ct_flip_high", "ct_last_flip",
            "nonce_flip", "nonce_short"}
Tamper(encMsg, t) ==
    CASE t = "none" -> encMsg
      [] t = "ct_flip_low" ->
            [encMsg EXCEPT !.Ciphertext = FlipCharBit(@, 1, 0)]
      [] t = "ct_flip_high" ->
            [encMsg EXCEPT !.Ciphertext = FlipCharBit(@, 1, 6)]
      [] t = "ct_last_flip" ->
            [encMsg EXCEPT !.Ciphertext = FlipCharBit(@, Len(@), 1)]
      [] t = "nonce_flip" ->
            [encMsg EXCEPT !.Nonce = FlipCharBit(@, Len(@), 0)]
      [] t = "nonce_short" ->
            [encMsg EXCEPT !.Nonce = SubSeq(@, 1, Len(@) - 2)]

\* a DecryptMessage call on an envelope some EncryptMessage call returned,
\* as sent or altered on the way
Decrypt(n, userID, e, t, messageIndex) ==
    /\ ret' = [op |-> "DecryptMessage", node |-> n, peer |-> userID,
               res |-> DecryptMessage(n, userID, Tamper(encLog[e].res.val, t),
                                      messageIndex),
               index |-> messageIndex, source |-> e, tamper |-> t]
    /\ UNCHANGED <<peerKeys, heap, rootKeys, chainKeys, messageKeys, encLog>>
    /\ UNCHANGED <<concVars, netVars, discVars, appVars>>

Next ==
    \/ \E n \in Nodes : \E userID \in PeersOf(n) : \E b \in PubKeyInputs(userID) :
           EstablishSharedKey(n, userID, b)
    \/ \E n \in Nodes : \E userID \in PeersOf(n) :
           /\ Allocated < MaxAlloc \/ userID \notin DOMAIN peerKeys[n]
           /\ InitializeWithPeer(n, userID)
    \/ \E n \in Nodes : \E userID \in PeersOf(n) :
           /\ Allocated < MaxAlloc \/ userID \notin DOMAIN chainKeys[n]
           /\ \E m \in Plaintexts : \E k \in 1..MaxNonce :
                  EncryptMessage(n, userID, m, Nonce(k))

Spec == Init /\ [][Next]_vars

\* the same calls, and DecryptMessage calls on the envelopes produced
NextDec ==
    \/ \E n \in Nodes : \E userID \in PeersOf(n) : \E b \in PubKeyInputs(userID) :
           EstablishSharedKey(n, userID, b)
    \/ \E n \in Nodes : \E userID \in PeersOf(n) :
           /\ Allocated < MaxAllocDec \/ userID \notin DOMAIN peerKeys[n]
           /\ InitializeWithPeer(n, userID)
    \/ \E n \in Nodes : \E userID \in PeersOf(n) :
           /\ Allocated < MaxAllocDec \/ userID \notin DOMAIN chainKeys[n]
           /\ \E m \in Plaintexts : \E k \in 1..MaxNonceDec :
                  EncryptMessage(n, userID, m, Nonce(k))
    \/ \E n \in Nodes : \E userID \in PeersOf(n) :
           \E e \in 1..Len(encLog) : \E t \in Tampers : \E i \in Indices :
               Decrypt(n, userID, e, t, i)

SpecDec == Init /\ [][NextDec]_vars

(***************************************************************************)
(* Lock-level model of EncryptMessage: goroutines of node A calling it     *)
(* concurrently, one step per statement, after EstablishSharedKey and      *)
(* InitializeWithPeer for peer B have returned.                            *)
(***************************************************************************)
ConcNode == "A"
ConcPeer == "B"
ConcSharedKey == SharedKey(ConcNode, GetPublicKey(ConcPeer))
InitialChainKey == ChainKeyOf(ConcSharedKey)

InitConc ==
    /\ peerKeys = [n \in Nodes |->
                     IF n = ConcNode THEN MapPut(EmptyMap, ConcPeer, ConcSharedKey)
                     ELSE EmptyMap]
    /\ heap = [n \in Nodes |-> IF n = ConcNode THEN <<InitialChainKey>> ELSE <<>>]
    /\ rootKeys = [n \in Nodes |->
                     IF n = ConcNode THEN MapPut(EmptyMap, ConcPeer, 1) ELSE EmptyMap]
    /\ chainKeys = [n \in Nodes |->
                      IF n = ConcNode THEN MapPut(EmptyMap, ConcPeer, 1) ELSE EmptyMap]
    /\ messageKeys = [n \in Nodes |->
                        IF n = ConcNode THEN MapPut(EmptyMap, ConcPeer, <<>>)
                        ELSE EmptyMap]
    /\ ret = [op |-> "InitializeWithPeer", node |-> ConcNode, peer |-> ConcPeer,
              res |-> Ok(<<>>)]
    /\ encLog = <<>>
    /\ pc = [t \in Threads |-> "idle"]
    /\ mu = 0
    /\ local = [t \in Threads |-> NoCall]
    /\ started = 0
    /\ NetInit
    /\ NewDiscoveryService
    /\ MainInit

\* sync.RWMutex.Lock returns only while no other goroutine holds the lock
\* (a Lock that never waits)
CanLock_NoWait(t) == TRUE
CanLock(t) == mu = 0

\* a goroutine calls EncryptMessage(userID, plaintext)
Call(t, userID, plaintext, nonce) ==
    /\ UNCHANGED <<netVars, discVars, appVars>>
    /\ pc[t] = "idle"
    /\ started < MaxCalls
    /\ started' = started + 1
    /\ local' = [local EXCEPT ![t] = [userID |-> userID, plaintext |-> plaintext,
                                      nonce |-> nonce, chainKey |-> 0, hash |-> 0]]
    /\ pc' = [pc EXCEPT ![t] = "lock"]
    /\ UNCHANGED <<keyVars, mu>>

\* fse.mu.Lock()
Lock(t) ==
    /\ UNCHANGED <<netVars, discVars, appVars>>
    /\ pc[t] = "lock"
    /\ CanLock(t)
    /\ mu' = t
    /\ pc' = [pc EXCEPT ![t] = "read"]
    /\ UNCHANGED <<keyVars, local, started>>

\* chainKey, exists := fse.chainKeys[userID]; the error return unlocks
ReadChainKey(t) ==
    /\ UNCHANGED <<netVars, discVars, appVars>>
    /\ pc[t] = "read"
    /\ IF local[t].userID \notin DOMAIN chainKeys[ConcNode]
       THEN /\ ret' = [op |-> "EncryptMessage", node |-> ConcNode,
                       peer |-> local[t].userID, res |-> Err(ErrNoChainKey)]
            /\ mu' = 0
            /\ pc' = [pc EXCEPT ![t] = "idle"]
            /\ local' = [local EXCEPT ![t] = NoCall]
       ELSE /\ local' = [local EXCEPT
                           ![t].chainKey = chainKeys[ConcNode][local[t].userID]]
            /\ pc' = [pc EXCEPT ![t] = "message"]
            /\ UNCHANGED <<ret, mu>>
    /\ UNCHANGED <<peerKeys, heap, rootKeys, chainKeys, messageKeys, encLog, started>>

\* hash := sha256.Sum256(append(chainKey, "message")); messageKey := hash[:]
DeriveMessageKey(t) ==
    /\ UNCHANGED <<netVars, discVars, appVars>>
    /\ pc[t] = "message"
    /\ heap' = [heap EXCEPT ![ConcNode] =
                  NewArray(@, MessageKeyOf(Deref(ConcNode, local[t].chainKey)))]
    /\ local' = [local EXCEPT ![t].hash = Len(heap[ConcNode]) + 1]
    /\ pc' = [pc EXCEPT ![t] = "advance"]
    /\ UNCHANGED <<peerKeys, rootKeys, chainKeys, messageKeys, ret, encLog, mu, started>>

\* hash = sha256.Sum256(append(chainKey, "advance"))
AdvanceHash(t) ==
    /\ UNCHANGED <<netVars, discVars, appVars>>
    /\ pc[t] = "advance"
    /\ heap' = [heap EXCEPT ![ConcNode] =
                  Overwrite(@, local[t].hash,
                            AdvanceOf(Deref(ConcNode, local[t].chainKey)))]
    /\ pc' = [pc EXCEPT ![t] = "store"]
    /\ UNCHANGED <<peerKeys, rootKeys, chainKeys, messageKeys, ret, encLog,
                   mu, local, started>>

\* fse.chainKeys[userID] = hash[:]
StoreChainKey(t) ==
    /\ UNCHANGED <<netVars, discVars, appVars>>
    /\ pc[t] = "store"
    /\ chainKeys' = [chainKeys EXCEPT
                       ![ConcNode] = MapPut(@, local[t].userID, local[t].hash)]
    /\ pc' = [pc EXCEPT ![t] = "append"]
    /\ UNCHANGED <<peerKeys, heap, rootKeys, messageKeys, ret, encLog,
                   mu, local, started>>

\* fse.messageKeys[userID] = append(fse.messageKeys[userID], messageKey)
AppendMessageKey(t) ==
    /\ UNCHANGED <<netVars, discVars, appVars>>
    /\ pc[t] = "append"
    /\ messageKeys' = [messageKeys EXCEPT ![ConcNode] =
                         MapPut(@, local[t].userID,
                                Append(IF local[t].userID \in DOMAIN @
                                       THEN @[local[t].userID] ELSE <<>>,
                                       local[t].hash))]
    /\ pc' = [pc EXCEPT ![t] = "encrypt"]
    /\ UNCHANGED <<peerKeys, heap, rootKeys, chainKeys, ret, encLog,
                   mu, local, started>>

\* return fse.km.encryptWithKey(messageKey, plaintext, userID), and the
\* deferred fse.mu.Unlock()
EncryptAndReturn(t) ==
    /\ UNCHANGED <<netVars, discVars, appVars>>
    /\ pc[t] = "encrypt"
    /\ LET call == [op |-> "EncryptMessage", node |-> ConcNode,
                    peer |-> local[t].userID,
                    res |-> Ok(encryptWithKey(Deref(ConcNode, local[t].hash),
                                              local[t].plaintext,
                                              local[t].userID, local[t].nonce)),
                    plaintext |-> local[t].plaintext,
                    index |-> Len(messageKeys[ConcNode][local[t].userID]) - 1,
                    chainKeyBefore |-> Deref(ConcNode, local[t].chainKey),
                    keyUsed |-> Deref(ConcNode, local[t].hash),
                    thread |-> t]
       IN  /\ ret' = call
           /\ encLog' = Append(encLog, call)
    /\ mu' = 0
    /\ pc' = [pc EXCEPT ![t] = "idle"]
    /\ local' = [local EXCEPT ![t] = NoCall]
    /\ UNCHANGED <<peerKeys, heap, rootKeys, chainKeys, messageKeys, started>>

NextConc ==
    \E t \in Threads :
        \/ \E userID \in PeersOf(ConcNode) : \E m \in Plaintexts :
               Call(t, userID, m, Nonce(1))
        \/ Lock(t)
        \/ ReadChainKey(t)
        \/ DeriveMessageKey(t)
        \/ AdvanceHash(t)
        \/ StoreChainKey(t)
        \/ AppendMessageKey(t)
        \/ EncryptAndReturn(t)

SpecConc == InitConc /\ [][NextConc]_vars

(***************************************************************************)
(* EnhancedP2PNetwork: the session table of each node, the TCP sockets,    *)
(* the handshake and the receive loop of each connection, Stop, Broadcast  *)
(* and SendToPeer.  Node A runs in connect mode and node B in listen mode;  *)
(* C is a client of its own making that dials B, sends what it likes and   *)
(* closes when it likes.                                                   *)
(***************************************************************************)
Dialers == {"A"}
Listeners == {"B"}
Client == "C"
\* the node whose Stop() is called while its sessions are live
Stoppers == {"B"}

\* the two sockets of connection k are 2k-1 (dialer's) and 2k (acceptor's)
SockIds == 1..(2 * MaxConns)
Open(e) == e \in 1..Len(sock)
Remote(e) == IF e % 2 = 1 THEN e + 1 ELSE e - 1
Owner(e) == sock[e].owner
IsDialer(e) == e % 2 = 1

\* a line on the wire: the JSON of a HandshakeData, or the bytes a caller
\* gave to Broadcast / SendToPeer followed by '\n'
HandshakeLine(id) == [kind |-> "handshake", id |-> id, body |-> <<>>]
WireBytes(message) == message \o <<10>>
MessageLine(message) == [kind |-> "message", id |-> "", body |-> WireBytes(message)]
\* the k-th message the callers send: "h0", "h1", ..
NetMessage(k) == <<104, 48 + k>>
\* json.Unmarshal into HandshakeData: fails on a line that is no JSON
ParsesAsHandshake(line) == line.kind = "handshake"

NewSock(owner, at) ==
    [owner |-> owner, pc |-> at, closes |-> 0, closedBy |-> {}, inbox |-> <<>>,
     user |-> "", registered |-> FALSE, added |-> 0, removed |-> 0,
     delivered |-> <<>>, dropped |-> 0, expired |-> FALSE, result |-> "none",
     why |-> ""]

\* net.Conn.Close
CloseSock(s, e, who) == [s EXCEPT ![e].closes = @ + 1, ![e].closedBy = @ \cup {who}]
Closed(e) == sock[e].closes > 0
\* the remote end has closed: reads see EOF once the lines in flight are read
RemoteClosed(e) == sock[Remote(e)].closes > 0
\* bytes written to a socket arrive at the remote end while that end is
\* open; nobody models what the client does with what it is sent
Arrives(s, e) == s[Remote(e)].closes = 0 /\ s[Remote(e)].owner # Client
Deliver(s, e, line) ==
    IF Arrives(s, e) THEN [s EXCEPT ![Remote(e)].inbox = Append(@, line)] ELSE s
\* net.Conn.Write fails on a socket closed at this end, and may fail on one
\* closed at the other end
WriteMustFail(e) == Closed(e)
WriteMayFail(e) == Closed(e) \/ RemoteClosed(e)

\* the session the table of node n holds for e, if it does
InTable(e) ==
    /\ sock[e].user \in DOMAIN peers[Owner(e)]
    /\ peers[Owner(e)][sock[e].user] = e
GetConnectedPeers(n) == DOMAIN peers[n]

\* Start: n.running = true (whether or not discovery starts)
Start(n) ==
    /\ ~running[n] /\ stop[n] = "no"
    /\ running' = [running EXCEPT ![n] = TRUE]
    /\ UNCHANGED <<listening, stop, peers, sock, sends, netRet>>
    /\ UNCHANGED <<keyVars, concVars, discVars, appVars>>

\* Listen, called after Start as main does: the listener is open and the
\* accept loop runs
Listen(n) ==
    /\ running[n] /\ ~listening[n] /\ stop[n] = "no"
    /\ listening' = [listening EXCEPT ![n] = TRUE]
    /\ UNCHANGED <<running, stop, peers, sock, sends, netRet>>
    /\ UNCHANGED <<keyVars, concVars, discVars, appVars>>

\* Connect(addr) up to the return of net.Dial: a connection to a listening
\* node; the dialer goes on to handleConnection in the caller's goroutine,
\* the acceptor's end waits in the listener's queue
Connect(n, to) ==
    /\ listening[to]
    /\ sock' = sock \o <<NewSock(n, "hs_write"), NewSock(to, "pending")>>
    /\ UNCHANGED <<running, listening, stop, peers, sends, netRet>>
    /\ UNCHANGED <<keyVars, concVars, discVars, appVars>>

\* the client dials a listening node
ClientDial(to) ==
    /\ listening[to]
    /\ sock' = sock \o <<NewSock(Client, "client"), NewSock(to, "pending")>>
    /\ UNCHANGED <<running, listening, stop, peers, sends, netRet>>
    /\ UNCHANGED <<keyVars, concVars, discVars, appVars>>

\* the client writes a line: its handshake, or bytes that are no JSON
ClientLines == {HandshakeLine(Client), MessageLine(<<120>>)}
ClientSend(e, line) ==
    /\ Open(e) /\ sock[e].pc = "client" /\ ~Closed(e)
    /\ sends' = sends + 1
    /\ sock' = Deliver(sock, e, line)
    /\ UNCHANGED <<running, listening, stop, peers, netRet>>
    /\ UNCHANGED <<keyVars, concVars, discVars, appVars>>

\* the client closes its socket
ClientClose(e) ==
    /\ Open(e) /\ sock[e].pc = "client" /\ ~Closed(e)
    /\ sock' = CloseSock(sock, e, "client")
    /\ UNCHANGED <<running, listening, stop, peers, sends, netRet>>
    /\ UNCHANGED <<keyVars, concVars, discVars, appVars>>

\* (an accept loop that calls handleConnection itself: it accepts nothing
\* while a connection it accepted is in its handshake)
Accept_Synchronous(e) ==
    /\ Open(e) /\ sock[e].pc = "pending"
    /\ running[Owner(e)] /\ listening[Owner(e)]
    /\ \A x \in 1..Len(sock) :
          (sock[x].owner = Owner(e) /\ ~IsDialer(x)) =>
              sock[x].pc \notin {"hs_write", "hs_read", "register", "notify"}
    /\ sock' = [sock EXCEPT ![e].pc = "hs_write"]
    /\ UNCHANGED <<running, listening, stop, peers, sends, netRet>>
    /\ UNCHANGED <<keyVars, concVars, discVars, appVars>>

\* the accept loop: for n.running { conn := Accept(); go handleConnection(conn) }
Accept(e) ==
    /\ Open(e) /\ sock[e].pc = "pending"
    /\ running[Owner(e)] /\ listening[Owner(e)]
    /\ sock' = [sock EXCEPT ![e].pc = "hs_write"]
    /\ UNCHANGED <<running, listening, stop, peers, sends, netRet>>
    /\ UNCHANGED <<keyVars, concVars, discVars, appVars>>

\* handleConnection, lines 159-163: the handshake failed; the socket is
\* closed and the error returned (to the caller of Connect, on a dialer)
\* (a failure path that returns without closing)
FailHandshake_NoClose(s, e, why) ==
    [s EXCEPT ![e].pc = "failed", ![e].result = "err", ![e].why = why]
FailHandshake(s, e, why) ==
    [CloseSock(s, e, "handshake") EXCEPT
        ![e].pc = "failed", ![e].result = "err", ![e].why = why]

\* performHandshake, line 200: conn.Write of the node's own handshake line
HandshakeWrite(e, fails) ==
    /\ Open(e) /\ sock[e].pc = "hs_write"
    /\ fails => WriteMayFail(e)
    /\ ~fails => ~WriteMustFail(e)
    /\ sock' = IF fails THEN FailHandshake(sock, e, "write")
               ELSE [Deliver(sock, e, HandshakeLine(Owner(e))) EXCEPT ![e].pc = "hs_read"]
    /\ UNCHANGED <<running, listening, stop, peers, sends, netRet>>
    /\ UNCHANGED <<keyVars, concVars, discVars, appVars>>

\* performHandshake, lines 204-222: a new bufio.Reader reads what has arrived
\* (the first k lines), ReadString returns the first, json.Unmarshal parses
\* it; the reader and the k-1 lines it buffered are dropped on return
HandshakeRead(e, k) ==
    /\ Open(e) /\ sock[e].pc = "hs_read"
    /\ k \in 1..Len(sock[e].inbox)
    /\ LET line == sock[e].inbox[1]
           rest == SubSeq(sock[e].inbox, k + 1, Len(sock[e].inbox))
           read == [sock EXCEPT ![e].inbox = rest, ![e].dropped = @ + (k - 1)]
       IN  sock' = IF ParsesAsHandshake(line)
                   THEN [read EXCEPT ![e].user = line.id, ![e].pc = "register"]
                   ELSE FailHandshake(read, e, "parse")
    /\ UNCHANGED <<running, listening, stop, peers, sends, netRet>>
    /\ UNCHANGED <<keyVars, concVars, discVars, appVars>>

\* performHandshake, lines 205-208: the remote end closed before a whole
\* line arrived, ReadString returns io.EOF
HandshakeEOF(e) ==
    /\ Open(e) /\ sock[e].pc = "hs_read"
    /\ sock[e].inbox = <<>> /\ RemoteClosed(e)
    /\ sock' = FailHandshake(sock, e, "eof")
    /\ UNCHANGED <<running, listening, stop, peers, sends, netRet>>
    /\ UNCHANGED <<keyVars, concVars, discVars, appVars>>

\* n.peers[peer.User.ID] = peer
\* (a registration that keeps the session it finds for the id)
RegisterPeer_KeepFirst(table, id, e) == IF id \in DOMAIN table THEN table ELSE MapPut(table, id, e)
\* (a registration that inserts nothing)
RegisterPeer_NotInserted(table, id, e) == table
RegisterPeer(table, id, e) == MapPut(table, id, e)

\* handleConnection, lines 165-167
Register(e) ==
    /\ Open(e) /\ sock[e].pc = "register"
    /\ peers' = [peers EXCEPT ![Owner(e)] = RegisterPeer(@, sock[e].user, e)]
    /\ sock' = [sock EXCEPT ![e].registered = TRUE, ![e].pc = "notify"]
    /\ UNCHANGED <<running, listening, stop, sends, netRet>>
    /\ UNCHANGED <<keyVars, concVars, discVars, appVars>>

\* handleConnection, lines 169-177: chat.AddPeer, go handlePeerMessages,
\* return nil
NotifyAndSpawn(e) ==
    /\ Open(e) /\ sock[e].pc = "notify"
    /\ sock' = [sock EXCEPT ![e].added = @ + 1, ![e].pc = "check", ![e].result = "ok"]
    /\ UNCHANGED <<running, listening, stop, peers, sends, netRet>>
    /\ UNCHANGED <<keyVars, concVars, discVars, appVars>>

\* handlePeerMessages, lines 230-231: for n.running { SetReadDeadline(..)
LoopCheck(e) ==
    /\ Open(e) /\ sock[e].pc = "check"
    /\ sock' = IF running[Owner(e)]
               THEN [sock EXCEPT ![e].pc = "read", ![e].expired = FALSE]
               ELSE [sock EXCEPT ![e].pc = "delete"]
    /\ UNCHANGED <<running, listening, stop, peers, sends, netRet>>
    /\ UNCHANGED <<keyVars, concVars, discVars, appVars>>

\* the read deadline of a loop blocked on an idle connection passes
IdleExpires(e) ==
    /\ Open(e) /\ sock[e].pc = "read"
    /\ sock[e].inbox = <<>> /\ ~sock[e].expired
    /\ ~Closed(e) /\ ~RemoteClosed(e)
    /\ sock' = [sock EXCEPT ![e].expired = TRUE]
    /\ UNCHANGED <<running, listening, stop, peers, sends, netRet>>
    /\ UNCHANGED <<keyVars, concVars, discVars, appVars>>

\* (a loop that hands each line to a goroutine of its own: the consumer
\* gets it before or after the lines handed over earlier)
ReadLine_HandedToGoroutine(e) ==
    /\ Open(e) /\ sock[e].pc = "read"
    /\ sock[e].inbox # <<>> /\ ~sock[e].expired
    /\ \E at \in 0..Len(sock[e].delivered) :
          sock' = [sock EXCEPT ![e].inbox = Tail(@),
                               ![e].delivered = SubSeq(@, 1, at) \o <<sock[e].inbox[1]>>
                                                  \o SubSeq(@, at + 1, Len(@)),
                               ![e].pc = "check"]
    /\ UNCHANGED <<running, listening, stop, peers, sends, netRet>>
    /\ UNCHANGED <<keyVars, concVars, discVars, appVars>>

\* handlePeerMessages, lines 232-241: ReadString returns a line that came
\* before the deadline, which is handed to chat.ProcessIncomingMessage
ReadLine(e) ==
    /\ Open(e) /\ sock[e].pc = "read"
    /\ sock[e].inbox # <<>> /\ ~sock[e].expired
    /\ sock' = [sock EXCEPT ![e].inbox = Tail(@),
                            ![e].delivered = Append(@, sock[e].inbox[1]),
                            ![e].pc = "check"]
    /\ UNCHANGED <<running, listening, stop, peers, sends, netRet>>
    /\ UNCHANGED <<keyVars, concVars, discVars, appVars>>

\* handlePeerMessages, lines 232-235: ReadString returns an error (the
\* socket was closed at this end, the remote end closed and nothing is left
\* to read, or the deadline passed) and the loop breaks
ReadError(e) ==
    /\ Open(e) /\ sock[e].pc = "read"
    /\ \/ Closed(e)
       \/ sock[e].expired
       \/ sock[e].inbox = <<>> /\ RemoteClosed(e)
    /\ sock' = [sock EXCEPT ![e].pc = "delete"]
    /\ UNCHANGED <<running, listening, stop, peers, sends, netRet>>
    /\ UNCHANGED <<keyVars, concVars, discVars, appVars>>

\* (a delete that removes nothing)
DeleteKey_Nothing(table, id) == table
DeleteKey(table, id) == [x \in (DOMAIN table) \ {id} |-> table[x]]

\* handlePeerMessages, lines 244-246: delete(n.peers, peer.User.ID)
DeletePeer(e) ==
    /\ Open(e) /\ sock[e].pc = "delete"
    /\ peers' = [peers EXCEPT ![Owner(e)] = DeleteKey(@, sock[e].user)]
    /\ sock' = [sock EXCEPT ![e].pc = "release"]
    /\ UNCHANGED <<running, listening, stop, sends, netRet>>
    /\ UNCHANGED <<keyVars, concVars, discVars, appVars>>

\* handlePeerMessages, lines 248-252: chat.RemovePeer, peer.Conn.Close()
Release(e) ==
    /\ Open(e) /\ sock[e].pc = "release"
    /\ sock' = [CloseSock(sock, e, "loop") EXCEPT ![e].removed = @ + 1, ![e].pc = "done"]
    /\ UNCHANGED <<running, listening, stop, peers, sends, netRet>>
    /\ UNCHANGED <<keyVars, concVars, discVars, appVars>>

\* Stop, lines 73-81: the flag is cleared and the listener closed, which
\* resets the connections still waiting in its queue
StopFlag(n) ==
    /\ stop[n] = "no"
    /\ stop' = [stop EXCEPT ![n] = "flagged"]
    /\ running' = [running EXCEPT ![n] = FALSE]
    /\ listening' = [listening EXCEPT ![n] = FALSE]
    /\ sock' = [e \in 1..Len(sock) |->
                  IF sock[e].owner = n /\ sock[e].pc = "pending"
                  THEN [sock[e] EXCEPT !.pc = "reset", !.closes = @ + 1,
                                       !.closedBy = @ \cup {"listener"}]
                  ELSE sock[e]]
    /\ UNCHANGED <<peers, sends, netRet>>
    /\ UNCHANGED <<keyVars, concVars, discVars, appVars>>

\* Stop, lines 83-87: under n.mu, peer.Conn.Close() for every session of
\* the table
StopClose(n) ==
    /\ stop[n] = "flagged"
    /\ stop' = [stop EXCEPT ![n] = "stopped"]
    /\ sock' = [e \in 1..Len(sock) |->
                  IF \E id \in DOMAIN peers[n] : peers[n][id] = e
                  THEN [sock[e] EXCEPT !.closes = @ + 1, !.closedBy = @ \cup {"Stop"}]
                  ELSE sock[e]]
    /\ UNCHANGED <<running, listening, peers, sends, netRet>>
    /\ UNCHANGED <<keyVars, concVars, discVars, appVars>>

\* the sessions of a table, and those a Broadcast whose writes to the
\* sessions in failing return an error attempts to write to
Sessions(table) == {table[id] : id \in DOMAIN table}
\* (a Broadcast that returns at the first failed write, met first)
Attempted_UntilFailure(targets, failing) == IF failing = {} THEN targets ELSE failing
Attempted(targets, failing) == targets

\* Broadcast(message): under n.mu.RLock, Write(append(message, '\n')) to
\* the socket of every session; an error is printed
Broadcast(n, failing) ==
    /\ failing \subseteq {e \in Sessions(peers[n]) : WriteMayFail(e)}
    /\ {e \in Sessions(peers[n]) : WriteMustFail(e)} \subseteq failing
    /\ LET message == NetMessage(sends)
           attempted == Attempted(Sessions(peers[n]), failing)
           sent == attempted \ failing
       IN  /\ sock' = [x \in 1..Len(sock) |->
                         IF Remote(x) \in sent /\ Arrives(sock, Remote(x))
                         THEN [sock[x] EXCEPT !.inbox = Append(@, MessageLine(message))]
                         ELSE sock[x]]
           /\ netRet' = [op |-> "Broadcast", node |-> n, to |-> "", message |-> message,
                         table |-> peers[n], written |-> attempted,
                         bytes |-> WireBytes(message),
                         failed |-> failing \cap attempted, err |-> ""]
    /\ sends' = sends + 1
    /\ UNCHANGED <<running, listening, stop, peers>>
    /\ UNCHANGED <<keyVars, concVars, discVars, appVars>>

ErrNotConnected(userID) == "peer " \o userID \o " not connected"
ErrWrite == "write: use of closed network connection or broken pipe"

\* (a send that, finding no session for userID, writes to the sessions it has)
SendToPeer_AnySession(n, userID, fails) ==
    /\ LET message == NetMessage(sends)
           targets == IF userID \in DOMAIN peers[n] THEN {peers[n][userID]}
                      ELSE Sessions(peers[n])
       IN  /\ fails => \A e \in targets : WriteMayFail(e)
           /\ ~fails => \A e \in targets : ~WriteMustFail(e)
           /\ sock' = [x \in 1..Len(sock) |->
                         IF ~fails /\ Remote(x) \in targets /\ Arrives(sock, Remote(x))
                         THEN [sock[x] EXCEPT !.inbox = Append(@, MessageLine(message))]
                         ELSE sock[x]]
           /\ netRet' = [op |-> "SendToPeer", node |-> n, to |-> userID,
                         message |-> message, table |-> peers[n],
                         written |-> targets, bytes |-> WireBytes(message),
                         failed |-> IF fails THEN targets ELSE {},
                         err |-> IF fails THEN ErrWrite ELSE ""]
    /\ sends' = sends + 1
    /\ UNCHANGED <<running, listening, stop, peers>>
    /\ UNCHANGED <<keyVars, concVars, discVars, appVars>>

\* SendToPeer(userID, message): under n.mu.RLock, the error of line 274 if
\* the table has no session for userID, else Write(append(message, '\n'))
\* to that session's socket and its error returned
SendToPeer(n, userID, fails) ==
    /\ LET message == NetMessage(sends)
       IN  IF userID \notin DOMAIN peers[n]
           THEN /\ ~fails
                /\ netRet' = [op |-> "SendToPeer", node |-> n, to |-> userID,
                              message |-> message,
                              table |-> peers[n], written |-> {},
                              bytes |-> WireBytes(message), failed |-> {},
                              err |-> ErrNotConnected(userID)]
                /\ UNCHANGED sock
           ELSE LET e == peers[n][userID]
                IN  /\ fails => WriteMayFail(e)
                    /\ ~fails => ~WriteMustFail(e)
                    /\ sock' = IF fails THEN sock
                               ELSE Deliver(sock, e, MessageLine(message))
                    /\ netRet' = [op |-> "SendToPeer", node |-> n, to |-> userID,
                                  message |-> message,
                                  table |-> peers[n], written |-> {e},
                                  bytes |-> WireBytes(message),
                                  failed |-> IF fails THEN {e} ELSE {},
                                  err |-> IF fails THEN ErrWrite ELSE ""]
    /\ sends' = sends + 1
    /\ UNCHANGED <<running, listening, stop, peers>>
    /\ UNCHANGED <<keyVars, concVars, discVars, appVars>>

\* main starts every node before it listens or connects
Booted(n) == running[n] \/ stop[n] # "no"
AllBooted == \A n \in Nodes : Booted(n)

NextNet ==
    \/ \E n \in Nodes : Start(n)
    \/ \E n \in Listeners : Listen(n)
    \/ \E n \in Dialers : \E to \in Listeners :
           AllBooted /\ Len(sock) < 2 * MaxConns /\ Connect(n, to)
    \/ \E to \in Listeners :
           AllBooted /\ Len(sock) < 2 * MaxConns /\ ClientDial(to)
    \/ \E e \in SockIds : \E line \in ClientLines :
           sends < MaxSends /\ ClientSend(e, line)
    \/ \E e \in SockIds : ClientClose(e)
    \/ \E e \in SockIds : Accept(e)
    \/ \E e \in SockIds : \E fails \in BOOLEAN : HandshakeWrite(e, fails)
    \/ \E e \in SockIds : \E k \in 1..MaxSends + 1 : HandshakeRead(e, k)
    \/ \E e \in SockIds : HandshakeEOF(e)
    \/ \E e \in SockIds : Register(e)
    \/ \E e \in SockIds : NotifyAndSpawn(e)
    \/ \E e \in SockIds : LoopCheck(e)
    \/ \E e \in SockIds : IdleExpires(e)
    \/ \E e \in SockIds : ReadLine(e)
    \/ \E e \in SockIds : ReadError(e)
    \/ \E e \in SockIds : DeletePeer(e)
    \/ \E e \in SockIds : Release(e)
    \/ \E n \in Stoppers : AllBooted /\ StopFlag(n)
    \/ \E n \in Stoppers : StopClose(n)

SpecNet == Init /\ [][NextNet]_vars

\* the same without Stop(): the sessions of nodes that keep running
NextLive ==
    \/ \E n \in Nodes : Start(n)
    \/ \E n \in Listeners : Listen(n)
    \/ \E n \in Dialers : \E to \in Listeners :
           AllBooted /\ Len(sock) < 2 * MaxConns /\ Connect(n, to)
    \/ \E to \in Listeners :
           AllBooted /\ Len(sock) < 2 * MaxConns /\ ClientDial(to)
    \/ \E e \in SockIds : \E line \in ClientLines :
           sends < MaxSends /\ ClientSend(e, line)
    \/ \E e \in SockIds : ClientClose(e)
    \/ \E e \in SockIds : Accept(e)
    \/ \E e \in SockIds : \E fails \in BOOLEAN : HandshakeWrite(e, fails)
    \/ \E e \in SockIds : \E k \in 1..MaxSends + 1 : HandshakeRead(e, k)
    \/ \E e \in SockIds : HandshakeEOF(e)
    \/ \E e \in SockIds : Register(e)
    \/ \E e \in SockIds : NotifyAndSpawn(e)
    \/ \E e \in SockIds : LoopCheck(e)
    \/ \E e \in SockIds : IdleExpires(e)
    \/ \E e \in SockIds : ReadLine(e)
    \/ \E e \in SockIds : ReadError(e)
    \/ \E e \in SockIds : DeletePeer(e)
    \/ \E e \in SockIds : Release(e)

\* nodes that keep running on connections that stay in use, a client that
\* sends its handshake and may close, and the callers of Broadcast and
\* SendToPeer
NextSend ==
    \/ \E n \in Nodes : Start(n)
    \/ \E n \in Listeners : Listen(n)
    \/ \E n \in Dialers : \E to \in Listeners :
           AllBooted /\ Len(sock) < 2 * MaxConns /\ Connect(n, to)
    \/ \E to \in Listeners :
           AllBooted /\ Len(sock) < 2 * MaxConns /\ ClientDial(to)
    \/ \E e \in SockIds : \E line \in {HandshakeLine(Client)} :
           sends < MaxSends /\ ClientSend(e, line)
    \/ \E e \in SockIds : ClientClose(e)
    \/ \E e \in SockIds : Accept(e)
    \/ \E e \in SockIds : \E fails \in BOOLEAN : HandshakeWrite(e, fails)
    \/ \E e \in SockIds : \E k \in 1..MaxSends + 1 : HandshakeRead(e, k)
    \/ \E e \in SockIds : HandshakeEOF(e)
    \/ \E e \in SockIds : Register(e)
    \/ \E e \in SockIds : NotifyAndSpawn(e)
    \/ \E e \in SockIds : LoopCheck(e)
    \/ \E e \in SockIds : ReadLine(e)
    \/ \E e \in SockIds : ReadError(e)
    \/ \E e \in SockIds : DeletePeer(e)
    \/ \E e \in SockIds : Release(e)
    \/ \E n \in Nodes : \E failing \in SUBSET SockIds :
           sends < MaxSends /\ Broadcast(n, failing)
    \/ \E n \in Nodes : \E userID \in PeerIds : \E fails \in BOOLEAN :
           sends < MaxSends /\ SendToPeer(n, userID, fails)

SpecSend == Init /\ [][NextSend]_vars

\* the goroutine of a connection (handleConnection, then handlePeerMessages)
\* is scheduled again and again while it can take a step
Handler(e) ==
    \/ \E fails \in BOOLEAN : HandshakeWrite(e, fails)
    \/ \E k \in 1..MaxSends + 1 : HandshakeRead(e, k)
    \/ HandshakeEOF(e)
    \/ Register(e)
    \/ NotifyAndSpawn(e)
    \/ LoopCheck(e)
    \/ ReadLine(e)
    \/ ReadError(e)
    \/ DeletePeer(e)
    \/ Release(e)

SpecLive ==
    /\ Init /\ [][NextLive]_vars
    /\ \A e \in SockIds : WF_vars(Handler(e))

(***************************************************************************)
(* DiscoveryService: the UDP socket of each node, its peer table, the      *)
(* listen loop, the announce loop and the sendResponse goroutines, Start,  *)
(* Stop, GetPeers and FindPeer.  The datagrams on the wire are those the   *)
(* nodes send and those that reach a node from outside.                    *)
(***************************************************************************)
\* time.Minute, in the seconds of the clock
Minute == 60
\* 5*time.Minute, the age GetPeers and FindPeer compare with
Window == 5 * Minute
\* make([]byte, 1024): the buffer ReadFromUDP fills
BufferSize == 1024
\* what the clock moves on by between two readings
Steps == {1, Window - 1}
\* the Stop() calls made on one service
MaxStops == 2

\* the IP address of a node, and an address that is no node's
Addr(n) == "ip " \o n
Outside == "ip Z"
DiscIds == Nodes \cup {"Z"}
\* protocol.User as far as discovery reads it
User(id, username) == [id |-> id, username |-> username]
\* NewEnhancedP2PNetwork: the localUser of a node's discovery service
LocalUser(n) == User(n, "user " \o n)

\* a datagram on its way to the discovery socket of node to: the JSON of a
\* DiscoveryMessage (kind is its type), or bytes that are no JSON; size is
\* its length in bytes and seq tells it from its like on the same way
Datagram(to, from, kind, user, size, seq) ==
    [to |-> to, from |-> from, kind |-> kind, user |-> user, size |-> size,
     seq |-> seq]
\* the size of the announce and response of a node: an identity with an
\* RSA-2048 public key in PEM
MessageSize == 700

\* json.Unmarshal(buffer[:n], &msg): fails on bytes that are no JSON and on
\* a message cut off at the end of the buffer
Unmarshals(d) == d.kind # "garbage" /\ d.size <= BufferSize

\* listenLoop, lines 98-104: the datagrams the loop drops
\* (a loop that drops only what does not parse)
Discarded_ParseOnly(n, d) == ~Unmarshals(d)
Discarded(n, d) == ~Unmarshals(d) \/ d.user.id = LocalUser(n).id

\* handleDiscoveryMessage, lines 150-158
\* (a table that keeps the entry it has for an id)
StorePeer_KeepFirst(table, d, at) ==
    IF d.user.id \in DOMAIN table THEN table
    ELSE MapPut(table, d.user.id,
                [address |-> d.from, user |-> d.user, lastSeen |-> at, online |-> TRUE])
StorePeer(table, d, at) ==
    MapPut(table, d.user.id,
           [address |-> d.from, user |-> d.user, lastSeen |-> at, online |-> TRUE])

\* GetPeers returns []*PeerInfo and FindPeer *PeerInfo: pointers to the
\* entries of ds.peers.  What a caller holds is, for each id, the value it
\* was handed, the value it reads through the pointer now, and whether the
\* table still holds the entry pointed to.
Handed(table, ids) ==
    [id \in ids |-> [returned |-> table[id], seen |-> table[id], live |-> TRUE]]
\* a write to the entry of the table for id is seen through a pointer to it
WriteThrough(h, id, peer) ==
    IF id \in DOMAIN h /\ h[id].live THEN [h EXCEPT ![id].seen = peer] ELSE h
\* ds.peers[id] is given a new entry: the pointers held refer to the old one
Replaced(h, id) ==
    IF id \in DOMAIN h THEN [h EXCEPT ![id].live = FALSE] ELSE h

\* time.Since(peer.LastSeen)
Since(lastSeen) == now - lastSeen
\* GetPeers, line 73
\* (a window that takes in the entry aged exactly five minutes)
Fresh_Inclusive(age) == age <= Window
Fresh(age) == age < Window
\* FindPeer, line 191
Stale(age) == age > Window

\* the nodes whose discovery socket is bound
Bound == {n \in Nodes : dsConn[n] = "open"}
\* the datagrams like d that are on the same way as d
Alike(d) == {x \in dgrams : [x EXCEPT !.seq = 0] = [d EXCEPT !.seq = 0]}
Sent(d) == [d EXCEPT !.seq = Cardinality(Alike(d))]
\* UDPConn.WriteTo on the socket of n: nothing is sent on a closed socket;
\* a datagram reaches the bound sockets it is addressed to
WriteTo(n, targets, kind) ==
    IF dsConn[n] = "open"
    THEN dgrams \cup {Sent(Datagram(to, Addr(n), kind, LocalUser(n), MessageSize, 0)) :
                         to \in targets \cap Bound}
    ELSE dgrams

\* Start: the socket is bound, running set and both loops started; or the
\* port is taken and the error returned
DsStart(n, ok) ==
    /\ dsConn[n] = "nil" /\ dsLoop[n].listen = "none"
    /\ IF ok
       THEN /\ dsConn' = [dsConn EXCEPT ![n] = "open"]
            /\ dsRunning' = [dsRunning EXCEPT ![n] = TRUE]
            /\ dsLoop' = [dsLoop EXCEPT ![n] = [listen |-> "read", announce |-> "first",
                                                last |-> "none"]]
       ELSE UNCHANGED <<dsConn, dsRunning, dsLoop>>
    /\ dsRet' = [op |-> "Start", node |-> n, err |-> ~ok]
    /\ UNCHANGED <<dsPeers, dsResponses, dgrams, now, dsCount>>
    /\ UNCHANGED <<keyVars, concVars, netVars, appVars>>

\* UDPConn.Close: the socket is closed and what it had queued is gone; on a
\* socket closed before it returns an error
\* (a Close that reopens a socket closed before)
CloseConn_Reopens(c) == IF c = "closed" THEN "open" ELSE "closed"
CloseConn(c) == "closed"

\* Stop: running = false; if conn != nil { conn.Close() }
DsStop(n) ==
    /\ dsRunning' = [dsRunning EXCEPT ![n] = FALSE]
    /\ dsConn' = [dsConn EXCEPT ![n] = IF @ = "nil" THEN "nil" ELSE CloseConn(@)]
    /\ dgrams' = IF dsConn[n] = "nil" THEN dgrams ELSE {d \in dgrams : d.to # n}
    /\ dsCount' = [dsCount EXCEPT !.stops[n] = @ + 1]
    /\ dsRet' = [op |-> "Stop", node |-> n, panic |-> FALSE,
                 closeErr |-> dsConn[n] = "closed"]
    /\ UNCHANGED <<dsPeers, dsLoop, dsResponses, now>>
    /\ UNCHANGED <<keyVars, concVars, netVars, appVars>>

\* the clock moves on
Tick(d) ==
    /\ now' = now + d
    /\ dsCount' = [dsCount EXCEPT !.ticks = @ + 1]
    /\ UNCHANGED <<dsRunning, dsConn, dsPeers, dsLoop, dsResponses, dgrams, dsRet>>
    /\ UNCHANGED <<keyVars, concVars, netVars, appVars>>

\* for ds.running: the loop goes round again, or ends
\* (a loop that never tests the flag)
Again_FlagIgnored(n, at) == at
Again(n, at) == IF dsRunning[n] THEN at ELSE "done"

\* (a listen loop that answers every datagram it stores, responses included)
ListenReceive_AnswersAll(n, d) ==
    /\ dsLoop[n].listen = "read" /\ dsConn[n] = "open"
    /\ d \in dgrams /\ d.to = n
    /\ dgrams' = dgrams \ {d}
    /\ IF Discarded(n, d)
       THEN UNCHANGED <<dsPeers, dsResponses, held>>
       ELSE /\ dsPeers' = [dsPeers EXCEPT ![n] = StorePeer(@, d, now)]
            /\ held' = [held EXCEPT ![n] = Replaced(@, d.user.id)]
            /\ dsResponses' = [dsResponses EXCEPT ![n] = Append(@, d.from)]
    /\ dsLoop' = [dsLoop EXCEPT ![n].listen = Again(n, "read"),
                                ![n].last = IF ~Unmarshals(d) THEN "no JSON"
                                            ELSE IF Discarded(n, d) THEN "own id"
                                            ELSE "handled"]
    /\ UNCHANGED <<dsRunning, dsConn, now, dsCount, dsRet>>
    /\ UNCHANGED <<keyVars, concVars, netVars, proc>>

\* listenLoop, lines 84-106, one iteration: ReadFromUDP returns datagram d,
\* which is dropped, or stored by handleDiscoveryMessage, which starts a
\* sendResponse goroutine for an announce; then the loop tests ds.running
ListenReceive(n, d) ==
    /\ dsLoop[n].listen = "read" /\ dsConn[n] = "open"
    /\ d \in dgrams /\ d.to = n
    /\ dgrams' = dgrams \ {d}
    /\ IF Discarded(n, d)
       THEN UNCHANGED <<dsPeers, dsResponses, held>>
       ELSE /\ dsPeers' = [dsPeers EXCEPT ![n] = StorePeer(@, d, now)]
            /\ held' = [held EXCEPT ![n] = Replaced(@, d.user.id)]
            /\ dsResponses' = IF d.kind = "announce"
                              THEN [dsResponses EXCEPT ![n] = Append(@, d.from)]
                              ELSE dsResponses
    /\ dsLoop' = [dsLoop EXCEPT ![n].listen = Again(n, "read"),
                                ![n].last = IF ~Unmarshals(d) THEN "no JSON"
                                            ELSE IF Discarded(n, d) THEN "own id"
                                            ELSE "handled"]
    /\ UNCHANGED <<dsRunning, dsConn, now, dsCount, dsRet>>
    /\ UNCHANGED <<keyVars, concVars, netVars, proc>>

\* listenLoop, lines 87-95: the socket is closed, ReadFromUDP returns an
\* error that is no timeout, continue; then the loop tests ds.running.  (A
\* read that times out, lines 88-90, changes nothing while ds.running.)
ListenClosed(n) ==
    /\ dsLoop[n].listen = "read" /\ dsConn[n] = "closed"
    /\ dsLoop' = [dsLoop EXCEPT ![n].listen = Again(n, "read"), ![n].last = "closed"]
    /\ UNCHANGED <<dsRunning, dsConn, dsPeers, dsResponses, dgrams, now, dsCount, dsRet>>
    /\ UNCHANGED <<keyVars, concVars, netVars, appVars>>

\* announce: the announce of the node, broadcast to the discovery port
announce(n) ==
    /\ dgrams' = WriteTo(n, Nodes, "announce")
    /\ dsCount' = [dsCount EXCEPT !.announces = IF dsLoop[n].announce = "wait"
                                                   /\ dsConn[n] = "open"
                                                THEN @ + 1 ELSE @]

\* announceLoop, lines 114-116: the announce made before the loop, then the
\* loop tests ds.running
AnnounceFirst(n) ==
    /\ dsLoop[n].announce = "first"
    /\ announce(n)
    /\ dsLoop' = [dsLoop EXCEPT ![n].announce = Again(n, "wait")]
    /\ UNCHANGED <<dsRunning, dsConn, dsPeers, dsResponses, now, dsRet>>
    /\ UNCHANGED <<keyVars, concVars, netVars, appVars>>

\* announceLoop, lines 116-120: the ticker fires and announce is called,
\* then the loop tests ds.running
AnnounceTick(n) ==
    /\ dsLoop[n].announce = "wait"
    /\ announce(n)
    /\ dsLoop' = [dsLoop EXCEPT ![n].announce = Again(n, "wait")]
    /\ UNCHANGED <<dsRunning, dsConn, dsPeers, dsResponses, now, dsRet>>
    /\ UNCHANGED <<keyVars, concVars, netVars, appVars>>

\* the node an address belongs to, if any
\* (an address that reaches nobody)
NodesAt_Nobody(addr) == {}
NodesAt(addr) == {m \in Nodes : Addr(m) = addr}

\* sendResponse(addr), in a goroutine of its own: the response of the node,
\* sent to the address the announce came from
sendResponse(n, i) ==
    /\ i \in 1..Len(dsResponses[n])
    /\ dgrams' = WriteTo(n, NodesAt(dsResponses[n][i]), "response")
    /\ dsResponses' = [dsResponses EXCEPT ![n] =
                          SubSeq(@, 1, i - 1) \o SubSeq(@, i + 1, Len(@))]
    /\ UNCHANGED <<dsRunning, dsConn, dsPeers, dsLoop, now, dsCount, dsRet>>
    /\ UNCHANGED <<keyVars, concVars, netVars, appVars>>

\* what reaches the socket of a node from outside: bytes that are no JSON,
\* the announce of an identity too long for the buffer, the response of a
\* third node, and the announce of another node's id from another address
\* and under another name
FromOutside(to) ==
    { Datagram(to, Outside, "garbage", User("", ""), 1, 0),
      Datagram(to, Outside, "announce", User("Z", "a very long name"), BufferSize + 1, 0),
      Datagram(to, Outside, "response", User("Z", "user Z"), MessageSize, 0) }
    \cup { Datagram(to, Outside, "announce", User(m, "renamed"), MessageSize, 0) :
              m \in Nodes \ {to} }

Inject(to, d) ==
    /\ dsConn[to] = "open" /\ d \in FromOutside(to) /\ d \notin dgrams
    /\ dgrams' = dgrams \cup {d}
    /\ dsCount' = [dsCount EXCEPT !.injects = @ + 1]
    /\ UNCHANGED <<dsRunning, dsConn, dsPeers, dsLoop, dsResponses, now, dsRet>>
    /\ UNCHANGED <<keyVars, concVars, netVars, appVars>>

\* UDP loses a datagram
Lose(d) ==
    /\ d \in dgrams
    /\ dgrams' = dgrams \ {d}
    /\ UNCHANGED <<dsRunning, dsConn, dsPeers, dsLoop, dsResponses, now, dsCount, dsRet>>
    /\ UNCHANGED <<keyVars, concVars, netVars, appVars>>

\* GetPeers: under ds.mu.RLock, the entries seen within the window, each
\* marked online
GetPeers(n) ==
    /\ LET result == {id \in DOMAIN dsPeers[n] : Fresh(Since(dsPeers[n][id].lastSeen))}
           table == [id \in DOMAIN dsPeers[n] |->
                       IF id \in result THEN [dsPeers[n][id] EXCEPT !.online = TRUE]
                       ELSE dsPeers[n][id]]
       IN  /\ dsPeers' = [dsPeers EXCEPT ![n] = table]
           /\ dsRet' = [op |-> "GetPeers", node |-> n, result |-> result,
                        lock |-> "RLock", wrote |-> result]
           /\ held' = [held EXCEPT ![n] = Handed(table, result)]
    /\ UNCHANGED <<dsRunning, dsConn, dsLoop, dsResponses, dgrams, now, dsCount>>
    /\ UNCHANGED <<keyVars, concVars, netVars, proc>>

\* FindPeer(userID): under ds.mu.RLock, nil without an entry; else the
\* entry, marked offline first if it was last seen longer ago than the window
FindPeer(n, userID) ==
    /\ IF userID \notin DOMAIN dsPeers[n]
       THEN /\ dsRet' = [op |-> "FindPeer", node |-> n, id |-> userID,
                         found |-> FALSE, lock |-> "RLock", wrote |-> {}]
            /\ UNCHANGED <<dsPeers, held>>
       ELSE LET peer == dsPeers[n][userID]
                stale == Stale(Since(peer.lastSeen))
                marked == IF stale THEN [peer EXCEPT !.online = FALSE] ELSE peer
            IN  /\ dsPeers' = [dsPeers EXCEPT ![n][userID] = marked]
                /\ dsRet' = [op |-> "FindPeer", node |-> n, id |-> userID,
                             found |-> TRUE, peer |-> marked, lock |-> "RLock",
                             wrote |-> IF stale THEN {userID} ELSE {}]
                /\ held' = [held EXCEPT ![n] = WriteThrough(@, userID, marked)]
    /\ UNCHANGED <<dsRunning, dsConn, dsLoop, dsResponses, dgrams, now, dsCount>>
    /\ UNCHANGED <<keyVars, concVars, netVars, proc>>

\* the ticker of announceLoop fires while the announces are within bounds
Ticker(n) ==
    /\ dsConn[n] = "open" => dsCount.announces < MaxAnnounce
    /\ AnnounceTick(n)

\* the discovery services of the nodes and their callers, datagrams from
\* outside and datagrams lost, while the clock stands
NextDisc ==
    \/ \E n \in Nodes : \E ok \in BOOLEAN : DsStart(n, ok)
    \/ \E n \in Stoppers : dsCount.stops[n] < MaxStops /\ DsStop(n)
    \/ \E n \in Nodes : \E d \in dgrams : ListenReceive(n, d)
    \/ \E n \in Nodes : ListenClosed(n)
    \/ \E n \in Nodes : AnnounceFirst(n)
    \/ \E n \in Nodes : Ticker(n)
    \/ \E n \in Nodes : \E i \in 1..Len(dsResponses[n]) : sendResponse(n, i)
    \/ \E to \in Nodes : \E d \in FromOutside(to) :
           dsCount.injects < MaxInject /\ Inject(to, d)
    \/ \E d \in dgrams : Lose(d)

SpecDisc == Init /\ [][NextDisc]_vars

\* two services that keep running, with datagrams that are delivered
NextExchange ==
    \/ \E n \in Nodes : DsStart(n, TRUE)
    \/ \E n \in Nodes : \E d \in dgrams : ListenReceive(n, d)
    \/ \E n \in Nodes : AnnounceFirst(n)
    \/ \E n \in Nodes : Ticker(n)
    \/ \E n \in Nodes : \E i \in 1..Len(dsResponses[n]) : sendResponse(n, i)

\* the goroutines of a service are scheduled again and again while they
\* can take a step: the listen loop reads the datagrams that have arrived,
\* the announce loop makes its first announce, a sendResponse goroutine runs
SpecDiscLive ==
    /\ Init /\ [][NextExchange]_vars
    /\ \A n \in Nodes :
          /\ WF_vars(\E d \in dgrams : ListenReceive(n, d))
          /\ WF_vars(AnnounceFirst(n))
          /\ WF_vars(\E i \in 1..Len(dsResponses[n]) : sendResponse(n, i))

\* services that are started and stopped, with datagrams that are delivered
NextStop ==
    \/ \E n \in Nodes : \E ok \in BOOLEAN : DsStart(n, ok)
    \/ \E n \in Nodes : dsCount.stops[n] < MaxStops /\ DsStop(n)
    \/ \E n \in Nodes : \E d \in dgrams : ListenReceive(n, d)
    \/ \E n \in Nodes : ListenClosed(n)
    \/ \E n \in Nodes : AnnounceFirst(n)
    \/ \E n \in Nodes : Ticker(n)
    \/ \E n \in Nodes : \E i \in 1..Len(dsResponses[n]) : sendResponse(n, i)

\* the loops are scheduled again and again while they can take a step, and
\* the ticker of the announce loop keeps firing
SpecDiscStop ==
    /\ Init /\ [][NextStop]_vars
    /\ \A n \in Nodes :
          /\ WF_vars((\E d \in dgrams : ListenReceive(n, d)) \/ ListenClosed(n))
          /\ WF_vars(AnnounceFirst(n) \/ Ticker(n))

\* the node whose GetPeers and FindPeer are called
Callers == {"A"}

\* services that keep running while the clock moves on, well-formed
\* datagrams from outside, and the callers of GetPeers and FindPeer
NextPeers ==
    \/ \E n \in Nodes : DsStart(n, TRUE)
    \/ \E d \in Steps : dsCount.ticks < MaxTicks /\ Tick(d)
    \/ \E n \in Nodes : \E d \in dgrams : ListenReceive(n, d)
    \/ \E n \in Nodes : AnnounceFirst(n)
    \/ \E n \in Nodes : \E i \in 1..Len(dsResponses[n]) : sendResponse(n, i)
    \/ \E to \in Callers : \E d \in FromOutside(to) :
           Unmarshals(d) /\ dsCount.injects < MaxInject /\ Inject(to, d)
    \/ \E n \in Callers : GetPeers(n)
    \/ \E n \in Callers : \E userID \in DiscIds : FindPeer(n, userID)

SpecPeers == Init /\ [][NextPeers]_vars

(***************************************************************************)
(* Properties.                                                             *)
(***************************************************************************)
Pairs == {<<n, p>> \in Nodes \X PeerIds : p \in PeersOf(n)}
Returned(op) == ret.op = op /\ ret.res.kind = "ok"
PairwiseDistinct(s) == \A i, j \in 1..Len(s) : i # j => s[i] # s[j]

\* C1: after EstablishSharedKey and InitializeWithPeer for a peer, the keys
\* that EncryptMessage calls append to the peer's message keys history are
\* pairwise distinct: the key at position i differs from the key at every
\* other position.
C1_IssuedKeysDistinct ==
    \A np \in Pairs : PairwiseDistinct(IssuedKeys(np[1], np[2]))

\* three EncryptMessage calls for one peer have returned
C1_Witness ==
    /\ Returned("EncryptMessage")
    /\ Len(IssuedKeys(ret.node, ret.peer)) >= 3

\* C3: when EncryptMessage returns, the key at the new last position of the
\* history, which is the key used for the AEAD, is H(ck || "message") for
\* the chain key ck the call found; the stored chain key is
\* H(ck || "advance"); and the stored message key is not the chain key.
C3_EncryptDerivesMessageKey ==
    Returned("EncryptMessage") =>
        LET issued == IssuedKeys(ret.node, ret.peer)
            stored == issued[Len(issued)]
            chain == Deref(ret.node, chainKeys[ret.node][ret.peer])
        IN  /\ stored = MessageKeyOf(ret.chainKeyBefore)
            /\ ret.keyUsed = stored
            /\ chain = AdvanceOf(ret.chainKeyBefore)
            /\ stored # chain

\* C4: after InitializeWithPeer succeeds with shared key s, the stored root
\* key is H(s || "root"), the stored chain key is H(s || "chain"), and the
\* two differ.
C4_InitDerivesRootAndChain ==
    Returned("InitializeWithPeer") =>
        LET s == peerKeys[ret.node][ret.peer]
            root == Deref(ret.node, rootKeys[ret.node][ret.peer])
            chain == Deref(ret.node, chainKeys[ret.node][ret.peer])
        IN  /\ root = RootKeyOf(s)
            /\ chain = ChainKeyOf(s)
            /\ root # chain

\* C5: over any sequence of EstablishSharedKey, InitializeWithPeer and
\* EncryptMessage calls for a peer, InitializeWithPeer being called again
\* included, no two EncryptMessage calls encrypt under the same message key.
C5_NoMessageKeyReuse ==
    \A i, j \in 1..Len(encLog) :
        (i # j /\ encLog[i].node = encLog[j].node /\ encLog[i].peer = encLog[j].peer)
            => encLog[i].keyUsed # encLog[j].keyUsed

\* C6: the message keys history of a peer is append-only: no step makes it
\* shorter or changes the key at an existing position.
C6_IssuedKeysAppendOnly ==
    [][\A np \in Pairs :
          /\ Len(IssuedKeys(np[1], np[2])') >= Len(IssuedKeys(np[1], np[2]))
          /\ \A i \in 1..Len(IssuedKeys(np[1], np[2])) :
                 IssuedKeys(np[1], np[2])'[i] = IssuedKeys(np[1], np[2])[i]]_vars

\* the EncryptMessage call whose envelope the last DecryptMessage call was
\* given, and whether that envelope arrived as it was sent
Source == encLog[ret.source]
Unaltered == ret.tamper = "none"
IssuedIndex(n, p, i) == i >= 0 /\ i < Len(IssuedKeys(n, p))

\* C2: if the EncryptMessage(p, m) call that produced envelope e appended
\* position i, then DecryptMessage(p, e, i) returns exactly m; DecryptMessage
\* of e at any other issued index, or under another peer's issued keys,
\* returns an error and no plaintext.
C2_RoundTrip ==
    (ret.op = "DecryptMessage" /\ Unaltered /\ ret.node = Source.node) =>
        /\ (ret.peer = Source.peer /\ ret.index = Source.index)
               => ret.res = Ok(Source.plaintext)
        /\ (IssuedIndex(ret.node, ret.peer, ret.index)
            /\ (ret.peer # Source.peer \/ ret.index # Source.index))
               => ret.res.kind = "error"

\* the round trip of C2 for as long as the history still holds, at the
\* position the call appended, the key the call used
RoundTripWhileKeyKept ==
    (/\ ret.op = "DecryptMessage" /\ Unaltered /\ ret.node = Source.node
     /\ ret.peer = Source.peer /\ ret.index = Source.index
     /\ IssuedIndex(ret.node, ret.peer, ret.index)
     /\ IssuedKeys(ret.node, ret.peer)[ret.index + 1] = Source.keyUsed)
        => ret.res = Ok(Source.plaintext)

\* C7: when two nodes have each established the shared key with the other
\* and initialized the ratchet, the i-th envelope one of them produces for
\* the other is decrypted to its plaintext by the other's
\* DecryptMessage(sender, envelope, i), however many messages (zero
\* included) the receiver has itself encrypted for the sender.
C7_PeerDecryptsAtSenderIndex ==
    (/\ ret.op = "DecryptMessage" /\ Unaltered
     /\ ret.node = Source.peer /\ ret.peer = Source.node
     /\ ret.index = Source.index
     /\ Source.peer \in DOMAIN chainKeys[Source.node]
     /\ ret.peer \in DOMAIN chainKeys[ret.node])
        => ret.res = Ok(Source.plaintext)

\* C9: for every messageIndex outside 0..n-1, n the number of keys issued
\* for the peer (negative indices and a peer without ratchet state
\* included), DecryptMessage returns the message-key-not-found error, no
\* plaintext, and does not panic.
C9_IndexOutOfRangeIsError ==
    (ret.op = "DecryptMessage" /\ ~IssuedIndex(ret.node, ret.peer, ret.index))
        => ret.res = Err(ErrKeyNotFound)

\* the errors by which decryptWithKey rejects an envelope: the AEAD's
\* authentication failure, or a field that no longer decodes as hex
RejectErrors == {ErrOpen, ErrHexInvalidByte, ErrHexLength}

\* C10: if the ciphertext or the nonce of an envelope is altered after
\* encryption, DecryptMessage at the correct index returns an error that
\* reports the failed decryption and no plaintext, and that outcome differs
\* from the one returned when the peer or the message key is not found.
C10_AlteredEnvelopeRejected ==
    (/\ ret.op = "DecryptMessage" /\ ~Unaltered
     /\ ret.node = Source.node /\ ret.peer = Source.peer
     /\ ret.index = Source.index
     /\ IssuedIndex(ret.node, ret.peer, ret.index)
     /\ IssuedKeys(ret.node, ret.peer)[ret.index + 1] = Source.keyUsed)
        => /\ ret.res.kind = "error"
           /\ ret.res.err \in RejectErrors
           /\ ret.res.val = <<>>
           /\ ret.res # Err(ErrKeyNotFound)

\* C11: EstablishSharedKey(peerId, bytes) with bytes that decode to no
\* point of the curve returns an error and leaves the shared-key table as
\* it was: no key is stored for peerId, and the keys stored earlier, for
\* peerId or for any other peer, are not altered.
C11_InvalidKeyRejected ==
    [][(ret'.op = "EstablishSharedKey"
        /\ ret'.key \notin {GetPublicKey(id) : id \in PeerIds})
          => /\ ret'.res.kind = "error"
             /\ peerKeys' = peerKeys]_vars

\* EstablishSharedKey was given bytes that are no point and returned an
\* error, at a node that holds a key stored earlier for that same peer
C11_Witness ==
    /\ ret.op = "EstablishSharedKey"
    /\ ret.key = InvalidKeyBytes
    /\ ret.res = Err(ErrInvalidPublicKey)
    /\ ret.peer \in DOMAIN peerKeys[ret.node]

\* C12: InitializeWithPeer(p) called while no shared key is stored for p,
\* and EncryptMessage(p, m) called while no ratchet is initialized for p,
\* each return an error and leave the root key, the chain key and the
\* issued message keys of every peer as they were.
C12_UninitializedRejected ==
    [][LET RatchetUnchanged ==
               /\ rootKeys' = rootKeys /\ chainKeys' = chainKeys
               /\ messageKeys' = messageKeys /\ heap' = heap
       IN  /\ (ret'.op = "InitializeWithPeer"
               /\ ret'.peer \notin DOMAIN peerKeys[ret'.node])
                  => (ret'.res = Err(ErrNoSharedKey) /\ RatchetUnchanged)
           /\ (ret'.op = "EncryptMessage"
               /\ ret'.peer \notin DOMAIN chainKeys[ret'.node])
                  => (ret'.res = Err(ErrNoChainKey) /\ RatchetUnchanged)]_vars

\* EncryptMessage for a peer without ratchet returned its error at a node
\* that holds, for another peer, a ratchet with an issued message key and,
\* for the peer itself, no shared key (so InitializeWithPeer fails too)
C12_Witness ==
    /\ ret.op = "EncryptMessage"
    /\ ret.res = Err(ErrNoChainKey)
    /\ ret.peer \notin DOMAIN peerKeys[ret.node]
    /\ \E p \in DOMAIN messageKeys[ret.node] : Len(messageKeys[ret.node][p]) >= 1

\* a session: a socket whose handshake succeeded and that was put in the
\* session table
Registered(e) == Open(e) /\ sock[e].registered
\* the end of a session: its receive loop has returned, the table no longer
\* holds it, its socket is closed
Destroyed(e) == Open(e) /\ sock[e].pc = "done" /\ ~InTable(e) /\ Closed(e)

TornDown(e) == sock[e].pc \in {"release", "done"}
NoTeardown == \A f \in 1..Len(sock) : ~TornDown(f)
\* a connection between two nodes: its dialer's and its acceptor's socket
NodeConns == {d \in 1..Len(sock) : IsDialer(d) /\ Owner(d) \in Dialers}

\* C13: Connect returns success only after the peer's handshake line has
\* been read and parsed and a session keyed by the remote node's id has been
\* put in the dialer's session table; and once the handshake has completed
\* on both ends, for as long as no session has been torn down, the dialer's
\* GetConnectedPeers contains the acceptor's id and the acceptor's contains
\* the dialer's id.
C13_ConnectedAfterHandshake ==
    \A d \in NodeConns :
        /\ sock[d].result = "ok" =>
              /\ sock[Remote(d)].pc \notin {"pending", "hs_write", "reset"}
              /\ sock[d].user = Owner(Remote(d))
              /\ sock[d].registered
              /\ NoTeardown => InTable(d) \/ \E f \in 1..Len(sock) :
                                   f # d /\ InTable(f) /\ sock[f].user = sock[d].user
        /\ (sock[d].registered /\ sock[Remote(d)].registered /\ NoTeardown) =>
              /\ Owner(Remote(d)) \in GetConnectedPeers(Owner(d))
              /\ Owner(d) \in GetConnectedPeers(Owner(Remote(d)))

\* Connect has returned success, the acceptor has registered the dialer,
\* and each of the two is among the other's connected peers
C13_Witness ==
    \E d \in NodeConns :
        /\ sock[d].result = "ok" /\ sock[Remote(d)].registered
        /\ NoTeardown
        /\ GetConnectedPeers(Owner(d)) = {Owner(Remote(d))}
        /\ Owner(d) \in GetConnectedPeers(Owner(Remote(d)))

\* C15: if the handshake of a connection fails at any stage (the write
\* fails, the connection is closed before a whole line is read, the line
\* does not parse), no session is put in the session table, the message
\* consumer is not told of a connected peer, no receive loop is started,
\* the socket is closed, and nothing more is done on the connection.
C15_FailedHandshakeLeavesNothing ==
    [][\A e \in SockIds :
          (e <= Len(sock') /\ sock'[e].pc = "failed") =>
              /\ ~sock'[e].registered
              /\ \A n \in Nodes : e \notin Sessions(peers'[n])
              /\ sock'[e].added = 0
              /\ sock'[e].delivered = <<>> /\ sock'[e].removed = 0
              /\ sock'[e].closes = 1 /\ sock'[e].closedBy = {"handshake"}
              /\ (Open(e) /\ sock[e].pc = "failed") => sock'[e] = sock[e]]_vars

\* one handshake has failed on a line that does not parse and another on a
\* connection closed before a line came
C15_Witness ==
    \E e, f \in 1..Len(sock) :
        /\ sock[e].pc = "failed" /\ sock[e].why = "parse"
        /\ sock[f].pc = "failed" /\ sock[f].why = "eof"

\* C16: for every registered session, under any interleaving of its receive
\* loop with Stop(), Broadcast, SendToPeer and other sessions, the socket is
\* closed exactly once and the message consumer is told of the peer's
\* departure exactly once, both by the receive loop only.
C16_ClosedOnceByLoop ==
    \A e \in 1..Len(sock) :
        Registered(e) =>
            /\ sock[e].closes <= 1 /\ sock[e].removed <= 1
            /\ sock[e].closedBy \subseteq {"loop"}
            /\ sock[e].pc = "done" => (sock[e].closes = 1 /\ sock[e].removed = 1)

\* the session the table of its node holds for an id is a socket of that
\* node whose handshake named that id
TableKeyedById ==
    \A n \in Nodes : \A id \in DOMAIN peers[n] :
        /\ Open(peers[n][id])
        /\ Owner(peers[n][id]) = n
        /\ sock[peers[n][id]].user = id

\* C18: the session table holds at most one entry per remote node id; when
\* a second handshake with the same remote id succeeds while a session for
\* that id exists, the entry afterwards refers to the later connection, and
\* the registration step neither closes nor merges the earlier connection's
\* socket.
C18_LaterHandshakeOverwrites ==
    [][/\ TableKeyedById
       /\ \A e \in 1..Len(sock) :
             (sock[e].pc = "register" /\ sock'[e].pc = "notify") =>
                 LET n == Owner(e)
                     id == sock[e].user
                 IN  /\ DOMAIN peers'[n] = (DOMAIN peers[n]) \cup {id}
                     /\ peers'[n][id] = e
                     /\ \A x \in (DOMAIN peers[n]) \ {id} : peers'[n][x] = peers[n][x]
                     /\ \A f \in (1..Len(sock)) \ {e} : sock'[f] = sock[f]]_vars

\* two sessions of one node for the same remote id, neither torn down: the
\* table holds the one registered later, the socket of the earlier one is
\* open
C18_Witness ==
    \E e, f \in 1..Len(sock) :
        /\ e # f /\ Owner(e) = Owner(f) /\ sock[e].user = sock[f].user
        /\ Registered(e) /\ Registered(f) /\ NoTeardown
        /\ InTable(f) /\ ~InTable(e)
        /\ ~Closed(e) /\ sock[e].pc = "read"

\* the last call was a Broadcast or SendToPeer in which a write failed
SendFailed(e) ==
    /\ netRet.op \in {"Broadcast", "SendToPeer"}
    /\ e \in netRet.failed

\* C17: when a write to a session's socket fails inside Broadcast or
\* SendToPeer, that session is destroyed: it is out of the session table
\* and its socket is closed.
C17_FailedWriteDestroysSession ==
    \A e \in 1..Len(sock) :
        SendFailed(e) => (~InTable(e) /\ Closed(e))

\* the bytes start with the caller's message as it was given
WrittenAsGiven(bytes, message) ==
    Len(bytes) >= Len(message) /\ SubSeq(bytes, 1, Len(message)) = message

\* C19: every byte sequence Broadcast writes to a session's socket is an
\* envelope the encryption layer produced for the message; the caller's
\* plaintext bytes are never written to a socket as given.
C19_BroadcastWritesEnvelope ==
    (netRet.op = "Broadcast" /\ netRet.written # {}) =>
        ~WrittenAsGiven(netRet.bytes, netRet.message)

\* C20: Broadcast attempts a write to every session the table holds at the
\* time of the call: a failed write to one session does not prevent the
\* write to any other (the line reaches every session whose write did not
\* fail), and Broadcast removes no session from the table.
C20_BroadcastReachesEverySession ==
    [][(netRet'.op = "Broadcast" /\ netRet' # netRet) =>
          LET n == netRet'.node
              line == MessageLine(netRet'.message)
          IN  /\ netRet'.written = Sessions(peers[n])
              /\ peers' = peers
              /\ \A e \in Sessions(peers[n]) \ netRet'.failed :
                    Arrives(sock, e) =>
                        sock'[Remote(e)].inbox = Append(sock[Remote(e)].inbox, line)]_vars

\* a Broadcast over two sessions: the write to one failed, the other was
\* written, and both are still in the table
C20_Witness ==
    /\ netRet.op = "Broadcast"
    /\ \E e, f \in netRet.written :
          /\ e \in netRet.failed /\ f \notin netRet.failed
          /\ InTable(e) /\ InTable(f)
          /\ sock[f].owner = netRet.node
          /\ \E i \in 1..Len(sock[Remote(f)].inbox) :
                 sock[Remote(f)].inbox[i] = MessageLine(netRet.message)

\* the statements of EncryptMessage between Lock and Unlock
InCall(t) == pc[t] \in {"read", "message", "advance", "store", "append", "encrypt"}
RECURSIVE AdvanceTimes(_, _)
AdvanceTimes(chainKey, k) ==
    IF k = 0 THEN chainKey ELSE AdvanceOf(AdvanceTimes(chainKey, k - 1))
ReturnedCalls == Len(encLog)

\* C8: concurrent EncryptMessage calls for the same peer never interleave
\* their read-chain-key / advance / append steps: under every interleaving,
\* once k calls have returned and none is between its Lock and Unlock, the
\* history has grown by exactly k pairwise distinct keys and the chain key
\* is the k-fold advance of the initial one.
C8_EncryptSerialized ==
    /\ \A t, u \in Threads : (InCall(t) /\ InCall(u)) => t = u
    /\ (\A t \in Threads : ~InCall(t)) =>
          /\ Len(IssuedKeys(ConcNode, ConcPeer)) = ReturnedCalls
          /\ PairwiseDistinct(IssuedKeys(ConcNode, ConcPeer))
          /\ Deref(ConcNode, chainKeys[ConcNode][ConcPeer])
                = AdvanceTimes(InitialChainKey, ReturnedCalls)

\* calls of two different goroutines have returned
C8_Witness ==
    /\ \E i, j \in 1..Len(encLog) : encLog[i].thread # encLog[j].thread
    /\ \A t \in Threads : ~InCall(t)
    /\ ReturnedCalls >= 2


\* C21: SendToPeer(id, message) returns the peer-not-connected error and
\* writes to no socket when the table has no entry for id; when an entry
\* exists it writes the message to that entry's socket and to no other.
C21_SendToPeerTargetsOneSession ==
    [][(netRet'.op = "SendToPeer" /\ netRet' # netRet) =>
          LET n == netRet'.node
              id == netRet'.to
              line == MessageLine(netRet'.message)
          IN  IF id \notin DOMAIN peers[n]
              THEN /\ netRet'.err = "peer " \o id \o " not connected"
                   /\ netRet'.written = {}
                   /\ sock' = sock
              ELSE LET e == peers[n][id]
                   IN  /\ netRet'.err # "peer " \o id \o " not connected"
                       /\ netRet'.written = {e}
                       /\ \A x \in 1..Len(sock) : x # Remote(e) => sock'[x] = sock[x]
                       /\ (netRet'.err = "" /\ Arrives(sock, e)) =>
                              sock'[Remote(e)].inbox = Append(sock[Remote(e)].inbox, line)]_vars

\* a node with two sessions has sent to one of them: the line is in that
\* connection and the other session's connection got nothing
C21_Witness ==
    /\ netRet.op = "SendToPeer" /\ netRet.err = ""
    /\ \E e, f \in Sessions(peers[netRet.node]) :
          /\ e # f /\ netRet.written = {e}
          /\ peers[netRet.node][netRet.to] = e
          /\ \E i \in 1..Len(sock[Remote(e)].inbox) :
                 sock[Remote(e)].inbox[i] = MessageLine(netRet.message)

\* an accepted connection whose handshake waits for the peer's line
Waiting(e) ==
    /\ Open(e) /\ ~IsDialer(e)
    /\ sock[e].pc = "hs_read" /\ sock[e].inbox = <<>>

\* C22: while the listener runs, accepting the next connection is never
\* blocked by a handshake in progress: in any state where accepted
\* connections still wait for their peer's handshake line, the accept step
\* is enabled for every connection that waits in the listener's queue.
C22_AcceptNotBlockedByHandshake ==
    \A e \in SockIds :
        ( /\ Open(e) /\ sock[e].pc = "pending"
          /\ running[Owner(e)] /\ listening[Owner(e)]
          /\ \E w \in SockIds : w # e /\ Waiting(w) /\ Owner(w) = Owner(e) )
        => ENABLED Accept(e)

\* a connection accepted after one that still waits for its peer's line
\* has completed its handshake and is registered
C22_Witness ==
    \E w, e \in SockIds :
        /\ w < e /\ Waiting(w) /\ ~RemoteClosed(w)
        /\ Open(e) /\ ~IsDialer(e) /\ Owner(e) = Owner(w)
        /\ sock[e].registered /\ InTable(e)
        /\ running[Owner(e)] /\ listening[Owner(e)]

\* the number of the send that wrote a message line: NetMessage(k) is "h" k
SendNumber(line) == line.body[2] - 48

\* C23: within one connection the lines read by the receive loop are handed
\* to the message consumer in the order they were read, which is the order
\* they were written to the connection: the consumer never gets the line of
\* a later send before the line of an earlier one.
C23_DeliveredInOrderRead ==
    \A e \in SockIds : Open(e) =>
        \A i, j \in 1..Len(sock[e].delivered) :
            ( /\ i < j
              /\ sock[e].delivered[i].kind = "message"
              /\ sock[e].delivered[j].kind = "message" )
            => SendNumber(sock[e].delivered[i]) < SendNumber(sock[e].delivered[j])

\* the consumer of one connection has been handed two lines
C23_Witness ==
    \E e \in SockIds :
        /\ Open(e) /\ Len(sock[e].delivered) = 2
        /\ sock[e].delivered[1] = MessageLine(NetMessage(0))
        /\ sock[e].delivered[2] = MessageLine(NetMessage(1))

\* the age of the entry node n holds for id
Age(n, id) == now - dsPeers[n][id].lastSeen

\* C24: GetPeers returns exactly the table entries with now - lastSeenAt
\* strictly less than 5 minutes: an entry aged exactly 5 minutes or more is
\* left out and an entry aged 4 minutes 59 seconds is returned; the call
\* removes no entry.
C24_GetPeersWithinWindow ==
    [][\A n \in Nodes : GetPeers(n) =>
          /\ dsRet'.result = {id \in DOMAIN dsPeers[n] : Age(n, id) < 5 * Minute}
          /\ \A id \in DOMAIN dsPeers[n] :
                 /\ Age(n, id) >= 5 * Minute => id \notin dsRet'.result
                 /\ Age(n, id) = 4 * Minute + 59 => id \in dsRet'.result
          /\ DOMAIN dsPeers'[n] = DOMAIN dsPeers[n]]_vars

\* GetPeers has returned at a time when one entry of the table was aged
\* exactly 5 minutes and another 4 minutes 59 seconds
C24_Witness ==
    /\ dsRet.op = "GetPeers"
    /\ \E old, young \in DOMAIN dsPeers[dsRet.node] :
          /\ Age(dsRet.node, old) = 5 * Minute /\ old \notin dsRet.result
          /\ Age(dsRet.node, young) = 4 * Minute + 59 /\ young \in dsRet.result

\* C25: FindPeer(id) returns the entry for id when one exists, deleting
\* nothing, and the entry it returns is marked offline whenever it is
\* stale, that is whenever now - lastSeenAt is not less than 5 minutes (the
\* threshold that keeps it out of GetPeers), an age of exactly 5 minutes
\* included.
C25_FindPeerMarksStaleOffline ==
    [][\A n \in Nodes : \A id \in DiscIds : FindPeer(n, id) =>
          /\ dsRet'.found = (id \in DOMAIN dsPeers[n])
          /\ DOMAIN dsPeers'[n] = DOMAIN dsPeers[n]
          /\ (id \in DOMAIN dsPeers[n] /\ ~(Age(n, id) < 5 * Minute)) =>
                 /\ dsRet'.peer.online = FALSE
                 /\ dsPeers'[n][id].online = FALSE]_vars

\* C26: a received datagram that fails to deserialize, or whose user id is
\* the local node's id, leaves the peer table unchanged and causes no
\* response to be sent (no sendResponse goroutine, no datagram); the local
\* node's id is never a key of its peer table.
C26_BadOrOwnDatagramDiscarded ==
    [][/\ \A n \in Nodes : \A d \in dgrams :
             ( /\ ListenReceive(n, d)
               /\ (d.kind = "garbage" \/ d.size > BufferSize \/ d.user.id = n) )
             => /\ dsPeers' = dsPeers
                /\ dsResponses' = dsResponses
                /\ dgrams' = dgrams \ {d}
       /\ \A n \in Nodes : n \notin DOMAIN dsPeers'[n]]_vars

\* one node has just dropped its own announce and the other a datagram
\* that is no JSON, after each had stored an entry
C26_Witness ==
    \E n, m \in Nodes :
        /\ dsLoop[n].last = "own id" /\ dsLoop[m].last = "no JSON"
        /\ dsPeers[n] # EmptyMap /\ dsPeers[m] # EmptyMap
        /\ n \notin DOMAIN dsPeers[n] /\ m \notin DOMAIN dsPeers[m]

\* a datagram the listen loop of n hands to handleDiscoveryMessage
Processed(n, d) ==
    /\ ListenReceive(n, d)
    /\ d.kind # "garbage" /\ d.size <= BufferSize /\ d.user.id # n

\* C28: the peer table holds one entry per remote node id, the set of its
\* ids never shrinks (no operation deletes an entry), and the entry for an
\* id carries the address and identity of the datagram from that id that
\* was processed last: processing a datagram writes them, and nothing else
\* changes them.
C28_TableGrowsLastWriteWins ==
    [][\A n \in Nodes :
          /\ DOMAIN dsPeers[n] \subseteq DOMAIN dsPeers'[n]
          /\ \A d \in dgrams : Processed(n, d) =>
                 /\ dsPeers'[n][d.user.id].address = d.from
                 /\ dsPeers'[n][d.user.id].user = d.user
          /\ \A id \in DOMAIN dsPeers[n] :
                 (~\E d \in dgrams : Processed(n, d) /\ d.user.id = id) =>
                     /\ dsPeers'[n][id].address = dsPeers[n][id].address
                     /\ dsPeers'[n][id].user = dsPeers[n][id].user]_vars

\* node A has processed an announce of B's id under another name from
\* another address, and a datagram of B after it: the entry is B's again
C28_Witness ==
    /\ dsCount.injects = 1
    /\ \A d \in dgrams : d.from # Outside
    /\ "Z" \notin DOMAIN dsPeers["A"]
    /\ "B" \in DOMAIN dsPeers["A"]
    /\ dsPeers["A"]["B"].address = Addr("B")
    /\ dsPeers["A"]["B"].user = LocalUser("B")

\* C29: Stop() on the discovery service is idempotent: it never panics and
\* leaves the service not running with no open socket, and called on a
\* service that is already so (stopped before, or never started) it
\* changes nothing of the service.
C29_StopIdempotent ==
    [][\A n \in Nodes : DsStop(n) =>
          /\ dsRet'.panic = FALSE
          /\ ~dsRunning'[n] /\ dsConn'[n] # "open"
          /\ (~dsRunning[n] /\ dsConn[n] # "open") =>
                 /\ dsRunning' = dsRunning /\ dsConn' = dsConn
                 /\ dsPeers' = dsPeers /\ dsLoop' = dsLoop
                 /\ dsResponses' = dsResponses /\ dgrams' = dgrams]_vars

\* Stop() has been called a second time on a service that was started: its
\* Close found the socket closed
C29_Witness ==
    /\ dsRet.op = "Stop" /\ dsRet.closeErr
    /\ dsCount.stops[dsRet.node] = 2
    /\ ~dsRunning[dsRet.node] /\ dsConn[dsRet.node] = "closed"

\* C27: with two nodes X and Y of different ids and datagrams that are
\* delivered: once an announce of X has reached Y, Y's table comes to hold
\* X and Y starts a unicast response to X; after that X's table comes to
\* hold Y, and each of the two tables holds exactly one entry.
C27_AnnounceResponseExchange ==
    \A X, Y \in Nodes : X # Y =>
        /\ (\E d \in dgrams : d.kind = "announce" /\ d.user.id = X /\ d.to = Y)
              ~> ( /\ X \in DOMAIN dsPeers[Y]
                   /\ \E i \in 1..Len(dsResponses[Y]) : dsResponses[Y][i] = Addr(X) )
        /\ (\E i \in 1..Len(dsResponses[Y]) : dsResponses[Y][i] = Addr(X))
              ~> ( /\ DOMAIN dsPeers[X] = {Y}
                   /\ DOMAIN dsPeers[Y] = {X} )

\* the exchange is over: each table holds the other node as it announced
\* itself, no response is pending and no datagram is on its way
C27_Witness ==
    /\ \A X, Y \in Nodes : X # Y =>
          /\ DOMAIN dsPeers[X] = {Y}
          /\ dsPeers[X][Y].address = Addr(Y) /\ dsPeers[X][Y].user = LocalUser(Y)
    /\ \A n \in Nodes : dsResponses[n] = <<>> /\ dsLoop[n].last = "handled"
    /\ dgrams = {}

\* C30: after Stop() on a started discovery service, its listen loop and
\* its announce loop both terminate eventually (the loops being scheduled
\* and the ticker firing): the closed socket keeps neither of them running.
C30_LoopsEndAfterStop ==
    \A n \in Nodes :
        (dsConn[n] = "closed")
            ~> (dsLoop[n].listen = "done" /\ dsLoop[n].announce = "done")

\* a stopped service whose listen loop met the closed socket and ended, as
\* did its announce loop
C30_Witness ==
    \E n \in Nodes :
        /\ dsConn[n] = "closed" /\ ~dsRunning[n]
        /\ dsLoop[n].last = "closed"
        /\ dsLoop[n].listen = "done" /\ dsLoop[n].announce = "done"

(***************************************************************************)
(* Stop() against connections in every stage                               *)
(***************************************************************************)
\* the goroutines of a node are scheduled while they can take a step: each
\* connection's handler, the accept loop and the caller of Stop; a read
\* deadline that was set passes.  The client is bound to nothing.
SpecStopLive ==
    /\ Init /\ [][NextNet]_vars
    /\ \A e \in SockIds : WF_vars(Handler(e))
    /\ \A e \in SockIds : WF_vars(Accept(e))
    /\ \A e \in SockIds : WF_vars(IdleExpires(e))
    /\ \A n \in Stoppers : WF_vars(StopClose(n))

\* nothing of node n is left: it accepts no more, its table is empty, each
\* of its sockets is closed and each of its goroutines has returned
ShutDown(n) ==
    /\ ~listening[n]
    /\ peers[n] = EmptyMap
    /\ \A e \in 1..Len(sock) :
          Owner(e) = n => (Closed(e) /\ sock[e].pc \in {"done", "failed", "reset"})

\* C31: after Stop() the accept loop and every receive loop eventually
\* exit, the session table eventually becomes empty and every socket the
\* node dialed or accepted is eventually closed, a connection whose
\* handshake still waits for the peer's line included.
C31_StopUnblocksEverything ==
    \A n \in Stoppers : (stop[n] # "no") ~> ShutDown(n)

(***************************************************************************)
(* main: the network is started before the node listens or connects        *)
(***************************************************************************)
Alive(n) == proc[n] = "up"

\* main, lines 40-45, with EnhancedP2PNetwork.Start and DiscoveryService
\* .Start: n.running = true; the discovery socket is bound and its loops
\* started, or the port is taken, Start returns the error and main ends the
\* process with log.Fatalf
MainStart(n, ok) ==
    /\ Alive(n) /\ ~running[n] /\ stop[n] = "no"
    /\ dsConn[n] = "nil" /\ dsLoop[n].listen = "none"
    /\ running' = [running EXCEPT ![n] = TRUE]
    /\ IF ok
       THEN /\ dsConn' = [dsConn EXCEPT ![n] = "open"]
            /\ dsRunning' = [dsRunning EXCEPT ![n] = TRUE]
            /\ dsLoop' = [dsLoop EXCEPT ![n] = [listen |-> "read", announce |-> "first",
                                                last |-> "none"]]
            /\ UNCHANGED proc
       ELSE /\ proc' = [proc EXCEPT ![n] = "exited"]
            /\ UNCHANGED <<dsConn, dsRunning, dsLoop>>
    /\ dsRet' = [op |-> "Start", node |-> n, err |-> ~ok]
    /\ UNCHANGED <<listening, stop, peers, sock, sends, netRet>>
    /\ UNCHANGED <<dsPeers, dsResponses, dgrams, now, dsCount, held>>
    /\ UNCHANGED <<keyVars, concVars>>

\* main, lines 50-54: a process that is up listens
MainListen(n) == Alive(n) /\ Listen(n)
\* main, lines 56-62, and the menu's connect: a process that is up dials
ManualConnect(n, to) == Alive(n) /\ Connect(n, to)

NextMain ==
    \/ \E n \in Nodes : \E ok \in BOOLEAN : MainStart(n, ok)
    \/ \E n \in Listeners : MainListen(n)
    \/ \E n \in Dialers : \E to \in Listeners :
           Len(sock) < 2 * MaxConns /\ ManualConnect(n, to)
    \/ \E e \in SockIds : Accept(e)
    \/ \E e \in SockIds : HandshakeWrite(e, FALSE)
    \/ \E e \in SockIds : \E k \in 1..MaxSends + 1 : HandshakeRead(e, k)
    \/ \E e \in SockIds : Register(e)
    \/ \E e \in SockIds : NotifyAndSpawn(e)
    \/ \E e \in SockIds : LoopCheck(e)
    \/ \E n \in Nodes : AnnounceFirst(n)
    \/ \E n \in Nodes : \E d \in dgrams : ListenReceive(n, d)
    \/ \E n \in Nodes : \E i \in 1..Len(dsResponses[n]) : sendResponse(n, i)

SpecMain == Init /\ [][NextMain]_vars

\* the network of n was started and its discovery service has no socket:
\* the port could not be bound
DiscoveryFailed(n) == running[n] /\ dsConn[n] = "nil"

\* C32: a failure to start discovery (the UDP port cannot be bound) does
\* not end the process: the node keeps running, and a manual Connect to a
\* listening node is still possible afterwards.
C32_DiscoveryFailureNotFatal ==
    \A n \in Nodes :
        DiscoveryFailed(n) =>
            /\ Alive(n)
            /\ \A to \in Listeners :
                  (n \in Dialers /\ listening[to]) => ENABLED ManualConnect(n, to)

\* the fields of table entries the last call wrote while it held only the
\* read lock of the table
WrittenUnlocked == IF dsRet.op \in {"GetPeers", "FindPeer"} /\ dsRet.lock # "Lock"
                   THEN dsRet.wrote ELSE {}

\* C33: every write to the discovery peer table or the session table, and
\* to any field of an entry held in them, happens while the writer holds
\* the table's write lock; no field is written under only the read lock or
\* with no lock held.
C33_WritesUnderWriteLock == WrittenUnlocked = {}

\* C34: the value returned by GetPeers, FindPeer or GetConnectedPeers is a
\* snapshot: no later operation on the service (a further GetPeers or
\* FindPeer call, or a received datagram) changes any field of a value that
\* was already returned to a caller.
C34_ReturnedValueIsSnapshot ==
    \A n \in Nodes : \A id \in DOMAIN held[n] :
        held[n][id].seen = held[n][id].returned

(***************************************************************************)
(* KeyManager.EncryptForPeer and DecryptFromPeer next to the ratchet       *)
(***************************************************************************)
ErrNoPeerKey == "no shared key for peer"

\* (an EncryptForPeer that encrypts with the next key of the ratchet)
EncryptForPeer_Ratcheting(n, userID, plaintext, nonce) ==
    /\ IF userID \notin DOMAIN peerKeys[n] \/ userID \notin DOMAIN chainKeys[n]
       THEN /\ ret' = [op |-> "EncryptForPeer", node |-> n, peer |-> userID,
                       res |-> Err(ErrNoPeerKey)]
            /\ UNCHANGED <<heap, chainKeys>>
       ELSE LET key == MessageKeyOf(heap[n][chainKeys[n][userID]])
            IN  /\ heap' = [heap EXCEPT ![n] = NewArray(@, AdvanceOf(heap[n][chainKeys[n][userID]]))]
                /\ chainKeys' = [chainKeys EXCEPT ![n] = MapPut(@, userID, Len(heap[n]) + 1)]
                /\ ret' = [op |-> "EncryptForPeer", node |-> n, peer |-> userID,
                           res |-> Ok(encryptWithKey(key, plaintext, userID, nonce))]
    /\ UNCHANGED <<peerKeys, rootKeys, messageKeys, encLog>>
    /\ UNCHANGED <<concVars, netVars, discVars, appVars>>

\* EncryptForPeer: the shared key of the peer read under km.mu.RLock, the
\* plaintext sealed under it
EncryptForPeer(n, userID, plaintext, nonce) ==
    /\ ret' = [op |-> "EncryptForPeer", node |-> n, peer |-> userID,
               res |-> IF userID \notin DOMAIN peerKeys[n] THEN Err(ErrNoPeerKey)
                       ELSE Ok(encryptWithKey(peerKeys[n][userID], plaintext,
                                              userID, nonce))]
    /\ UNCHANGED <<peerKeys, heap, rootKeys, chainKeys, messageKeys, encLog>>
    /\ UNCHANGED <<concVars, netVars, discVars, appVars>>

\* DecryptFromPeer: the shared key of the peer read under km.mu.RLock, the
\* envelope opened with it
DecryptFromPeer(n, userID, encMsg) ==
    /\ ret' = [op |-> "DecryptFromPeer", node |-> n, peer |-> userID,
               res |-> IF userID \notin DOMAIN peerKeys[n] THEN Err(ErrNoPeerKey)
                       ELSE decryptWithKey(peerKeys[n][userID], encMsg)]
    /\ UNCHANGED <<peerKeys, heap, rootKeys, chainKeys, messageKeys, encLog>>
    /\ UNCHANGED <<concVars, netVars, discVars, appVars>>

\* the last call returned an envelope
GaveEnvelope == ret.op \in {"EncryptForPeer", "EncryptMessage"} /\ ret.res.kind = "ok"

\* the calls of both components, DecryptFromPeer on the envelope the call
\* before it returned
NextKeys ==
    \/ \E n \in Nodes : \E userID \in PeersOf(n) : \E b \in PubKeyInputs(userID) :
           EstablishSharedKey(n, userID, b)
    \/ \E n \in Nodes : \E userID \in PeersOf(n) :
           /\ Allocated < MaxAlloc \/ userID \notin DOMAIN peerKeys[n]
           /\ InitializeWithPeer(n, userID)
    \/ \E n \in Nodes : \E userID \in PeersOf(n) :
           /\ Allocated < MaxAlloc \/ userID \notin DOMAIN chainKeys[n]
           /\ \E m \in Plaintexts : \E k \in 1..MaxNonce :
                  EncryptMessage(n, userID, m, Nonce(k))
    \/ \E n \in Nodes : \E userID \in PeersOf(n) :
           \E e \in 1..Len(encLog) : \E i \in Indices :
               Decrypt(n, userID, e, "none", i)
    \/ \E n \in Nodes : \E userID \in PeersOf(n) :
           \E m \in Plaintexts : \E k \in 1..MaxNonce :
               EncryptForPeer(n, userID, m, Nonce(k))
    \/ \E n \in Nodes : \E userID \in PeersOf(n) :
           GaveEnvelope /\ DecryptFromPeer(n, userID, ret.res.val)

SpecKeys == Init /\ [][NextKeys]_vars

\* the ratchet state node n keeps for peer p, as bytes
Ratchet(n, p) ==
    [rootKey |-> IF p \in DOMAIN rootKeys[n] THEN <<Deref(n, rootKeys[n][p])>> ELSE <<>>,
     chainKey |-> IF p \in DOMAIN chainKeys[n] THEN <<Deref(n, chainKeys[n][p])>> ELSE <<>>,
     issued |-> IF p \in DOMAIN messageKeys[n] THEN <<IssuedKeys(n, p)>> ELSE <<>>]

\* C35: the ratchet state of a peer (rootKey, chainKey, issued message
\* keys) is changed only by InitializeWithPeer and EncryptMessage for that
\* same peer: DecryptMessage, EncryptForPeer, DecryptFromPeer and
\* EstablishSharedKey leave it unchanged, and EncryptMessage or
\* InitializeWithPeer for peer p leave the ratchet state of every other
\* peer unchanged.
C35_RatchetChangedOnlyByItsOwnCalls ==
    [][\A n \in Nodes : \A p \in PeerIds :
          Ratchet(n, p)' # Ratchet(n, p) =>
              /\ ret'.op \in {"InitializeWithPeer", "EncryptMessage"}
              /\ ret'.node = n /\ ret'.peer = p]_vars

\* node A keeps a ratchet for two peers, has encrypted for one of them, and
\* the last call was one of those that leave the ratchets alone
C35_Witness ==
    /\ ret.op \in {"DecryptMessage", "EncryptForPeer", "DecryptFromPeer",
                   "EstablishSharedKey"}
    /\ ret.res.kind = "ok"
    /\ \E p, q \in PeersOf(ret.node) :
          /\ p # q
          /\ Len(Ratchet(ret.node, p).issued) = 1
          /\ Len(Ratchet(ret.node, p).issued[1]) >= 1
          /\ Ratchet(ret.node, q).chainKey # <<>>

\* the receive loop of e takes the step of lines 244-246
Deletes(e) == sock[e].pc = "delete" /\ sock'[e].pc = "release"

\* C36: a session table entry is removed only by the receive loop of the
\* connection the entry refers to: when the receive loop of an older,
\* overwritten connection to the same remote id exits, the entry of the
\* newer connection stays in the table, so the latest connection for an id
\* stays listed in GetConnectedPeers and reachable by SendToPeer while its
\* socket is open and its receive loop runs.
C36_EntryRemovedOnlyByItsOwnLoop ==
    [][\A e \in 1..Len(sock) :
          Deletes(e) =>
              \A id \in DOMAIN peers[Owner(e)] :
                  peers[Owner(e)][id] # e =>
                      /\ id \in GetConnectedPeers(Owner(e))'
                      /\ peers'[Owner(e)][id] = peers[Owner(e)][id]]_vars

\* C37: every complete line a peer writes after its handshake line is
\* handed to the message consumer by the receive loop, a line that arrives
\* together with the handshake line before the receive loop has started
\* included; no byte received after the handshake line is dropped between
\* the handshake step and the receive loop.
C37_NoLineLostAfterHandshake ==
    \A e \in 1..Len(sock) : sock[e].dropped = 0

\* two EncryptMessage calls in the two directions of one peer pair
Opposite(a, b) == a.node # b.node /\ a.peer = b.node /\ b.peer = a.node

\* C38: for two nodes A and B sharing one established key, the message key
\* A uses for its i-th EncryptMessage to B is never the key B uses for any
\* of its own EncryptMessage calls to A: no message key is used to encrypt
\* in both directions of a peer pair.
C38_NoKeySharedByBothDirections ==
    \A i, j \in 1..Len(encLog) :
        Opposite(encLog[i], encLog[j]) => encLog[i].keyUsed # encLog[j].keyUsed

(***************************************************************************)
(* The legacy helpers EncryptWithECDH and DecryptWithECDH                  *)
(***************************************************************************)
\* EncryptWithECDH: encryptWithKey under the key given, for the nonce the
\* random source gave; only the Ciphertext field of the envelope is returned
EncryptWithECDH(plaintext, sharedKey, nonce) ==
    Ok(encryptWithKey(sharedKey, plaintext, "legacy", nonce).Ciphertext)

\* the Nonce field DecryptWithECDH fills in: 24 times the character '0'
DummyNonce == [i \in 1..(2 * NonceSize) |-> 48]
\* DecryptWithECDH: decryptWithKey on an envelope of the ciphertext given
\* and the dummy nonce
DecryptWithECDH(ciphertextHex, sharedKey) ==
    decryptWithKey(sharedKey, [Nonce |-> DummyNonce, Ciphertext |-> ciphertextHex,
                               KeyID |-> ""])

\* the keys, plaintexts and nonces of the calls: the shared keys of the
\* peer pairs, and every nonce the random source may give, the all-zero one
\* included
LegacyKeys == UNION {{SharedKey(n, GetPublicKey(p)) : p \in PeerIds \ {n}} : n \in Nodes}
LegacyPlaintexts == Plaintexts \cup {<<0>>, <<48, 48>>, <<255, 1, 10>>}
LegacyNonces == {Nonce(k) : k \in 0..MaxNonce}

\* a call of EncryptWithECDH
LegacyEncrypt(m, k, nonce) ==
    /\ ret' = [op |-> "EncryptWithECDH", plaintext |-> m, key |-> k, nonce |-> nonce,
               res |-> EncryptWithECDH(m, k, nonce)]
    /\ UNCHANGED <<peerKeys, heap, rootKeys, chainKeys, messageKeys, encLog>>
    /\ UNCHANGED <<concVars, netVars, discVars, appVars>>

\* a call of DecryptWithECDH on what the call of EncryptWithECDH before it
\* returned
LegacyDecrypt(k) ==
    /\ ret.op = "EncryptWithECDH"
    /\ ret' = [op |-> "DecryptWithECDH", plaintext |-> ret.plaintext, key |-> k,
               sealedWith |-> ret.key, nonce |-> ret.nonce,
               res |-> DecryptWithECDH(ret.res.val, k)]
    /\ UNCHANGED <<peerKeys, heap, rootKeys, chainKeys, messageKeys, encLog>>
    /\ UNCHANGED <<concVars, netVars, discVars, appVars>>

NextLegacy ==
    \/ \E m \in LegacyPlaintexts : \E k \in LegacyKeys : \E nonce \in LegacyNonces :
           LegacyEncrypt(m, k, nonce)
    \/ \E k \in LegacyKeys : LegacyDecrypt(k)

SpecLegacy == Init /\ [][NextLegacy]_vars

\* C40: the legacy helper pair round-trips: for every plaintext m and
\* 32-byte key k, DecryptWithECDH(EncryptWithECDH(m, k), k) returns m.
C40_LegacyRoundTrip ==
    (ret.op = "DecryptWithECDH" /\ ret.key = ret.sealedWith) =>
        ret.res = Ok(ret.plaintext)

\* the responses of node n among the datagrams D
ResponsesFrom(n, D) == {d \in D : d.kind = "response" /\ d.from = Addr(n)}
\* the sendResponse goroutines of n started and not yet run
Pending(n) == Len(dsResponses[n])

\* C39: the discovery exchange terminates: a response datagram is sent
\* only in reaction to a received announce datagram from another id, and a
\* received response datagram never causes any datagram to be sent, so the
\* number of responses a node sends never exceeds the number of announces
\* it has processed.  (Each response sent uses up one reaction started, and
\* each reaction is started by one announce of another id taken from the
\* socket, in a step that sends nothing.)
C39_ResponseOnlyToAnnounce ==
    [][\A n \in Nodes :
          /\ ResponsesFrom(n, dgrams') \ dgrams # {} => Pending(n)' = Pending(n) - 1
          /\ Pending(n)' > Pending(n) =>
                /\ Pending(n)' = Pending(n) + 1
                /\ \E d \in dgrams :
                      /\ d.to = n /\ d.kind = "announce"
                      /\ d.user.id # LocalUser(n).id
                      /\ dgrams' = dgrams \ {d}
          /\ \A d \in dgrams :
                (d.kind = "response" /\ ListenReceive(n, d)) =>
                    /\ dgrams' = dgrams \ {d}
                    /\ dsResponses' = dsResponses]_vars

\* a node has stored the sender of a response it received and has no
\* reaction to run, while a response of another node is on its way
C39_Witness ==
    \E n, m \in Nodes :
        /\ n # m
        /\ dsLoop[n].last = "handled" /\ "Z" \in DOMAIN dsPeers[n]
        /\ dsPeers[n]["Z"].user.username = "user Z"
        /\ Pending(n) = 0
        /\ ResponsesFrom(m, dgrams) # {}

=========================================================================
